---- MODULE Spec2Model ----
(***************************************************************************)
(* Model of the JSON editor session of rs-ratatui-json-editor:             *)
(* the document (App.pairs), the traversal path, the edit buffers, the     *)
(* selection cursor, the screen / focus state and the key-binding table,   *)
(* driven by run_app's loop: update_state, draw, read a key, handle_input. *)
(*                                                                         *)
(* Text is a sequence of one-character strings, so that push / pop /       *)
(* parse / to_string are computed character by character.                  *)
(* Option<T> is a sequence of length 0 (None) or 1 (Some).                 *)
(* An IndexMap is a sequence of [key, value] entries in iteration order.   *)
(***************************************************************************)
EXTENDS Integers, Sequences, FiniteSets, TLC

\* ------------------------------------------------------------------ bounds
\* A session is followed until MaxEvents of its key presses have resolved to
\* an action other than a move of the cursor or of the focus (moves are not
\* counted: they only walk a ring of a few positions).
MaxEvents == 4

\* ------------------------------------------------------ Option and text
None == <<>>
Some(x) == <<x>>
IsSome(o) == o # <<>>
Unwrap(o) == o[1]

\* usize::MAX, the value ListState::select_previous stores when nothing is
\* selected; every list of the model is far shorter.
UsizeMax == 2^30 + (2^30 - 1)

Digits == <<"0", "1", "2", "3", "4", "5", "6", "7", "8", "9">>
IsDigit(c) == \E d \in 1..10 : Digits[d] = c
DigitVal(c) == (CHOOSE d \in 1..10 : Digits[d] = c) - 1

\* usize::to_string: decimal digits, most significant first.
RECURSIVE UsizeToString(_)
UsizeToString(i) ==
    IF i < 10 THEN <<Digits[i + 1]>>
    ELSE Append(UsizeToString(i \div 10), Digits[(i % 10) + 1])

TrueText == <<"t", "r", "u", "e">>
FalseText == <<"f", "a", "l", "s", "e">>
NullText == <<"n", "u", "l", "l">>
ObjectText == <<"{", "}">>
ArrayText == <<"[", "]">>

\* bool::to_string
BoolToString(b) == IF b THEN TrueText ELSE FalseText

\* str::parse::<bool>: exactly "true" or "false".
ParseBool(s) ==
    IF s = TrueText THEN Some(TRUE)
    ELSE IF s = FalseText THEN Some(FALSE)
    ELSE None

\* A Number is held in tenths (one decimal digit of the double is kept).
NumScale == 10

RECURSIVE DigitsValue(_)
DigitsValue(s) ==
    IF s = <<>> THEN 0
    ELSE DigitsValue(SubSeq(s, 1, Len(s) - 1)) * 10 + DigitVal(s[Len(s)])

AllDigits(s) == \A j \in 1..Len(s) : IsDigit(s[j])

\* str::parse::<f64> on the decimal grammar  [+-] digits [ . digits ]  with at
\* least one digit; the value is returned in tenths.  Exponents and the words
\* inf / nan need characters no buffer of the model can hold in that order.
ParseF64(s) ==
    LET signed == s # <<>> /\ s[1] \in {"+", "-"}
        body == IF signed THEN Tail(s) ELSE s
        dots == {j \in 1..Len(body) : body[j] = "."}
        ip == IF dots = {} THEN body
              ELSE SubSeq(body, 1, (CHOOSE j \in dots : TRUE) - 1)
        fp == IF dots = {} THEN <<>>
              ELSE SubSeq(body, (CHOOSE j \in dots : TRUE) + 1, Len(body))
        wellFormed == /\ Cardinality(dots) <= 1
                      /\ AllDigits(ip) /\ AllDigits(fp)
                      /\ Len(ip) + Len(fp) >= 1
                      /\ Len(fp) <= 1
        mag == DigitsValue(ip) * NumScale + DigitsValue(fp)
    IN  IF ~wellFormed THEN None
        ELSE Some(IF signed /\ s[1] = "-" THEN 0 - mag ELSE mag)

\* f64::to_string: no decimal point for a whole number.
F64ToString(n) ==
    LET mag == IF n < 0 THEN 0 - n ELSE n
        whole == UsizeToString(mag \div NumScale)
        frac == IF mag % NumScale = 0 THEN <<>>
                ELSE <<".", Digits[(mag % NumScale) + 1]>>
    IN  (IF n < 0 THEN <<"-">> ELSE <<>>) \o whole \o frac

Whitespace == {" ", "\t", "\n"}
\* str::trim().is_empty()
TrimIsEmpty(s) == \A j \in 1..Len(s) : s[j] \in Whitespace

\* ------------------------------------------------------------- JsonValue
JsonValue(t, n, s, b, o, a) ==
    [type |-> t, n |-> n, s |-> s, b |-> b, o |-> o, a |-> a]
JNull == JsonValue("Null", 0, <<>>, FALSE, <<>>, <<>>)
JNumber(n) == JsonValue("Number", n, <<>>, FALSE, <<>>, <<>>)
JString(s) == JsonValue("String", 0, s, FALSE, <<>>, <<>>)
JBool(b) == JsonValue("Bool", 0, <<>>, b, <<>>, <<>>)
JObject(o) == JsonValue("Object", 0, <<>>, FALSE, o, <<>>)
JArray(a) == JsonValue("Array", 0, <<>>, FALSE, <<>>, a)

all_value_types == <<"String", "Number", "Bool", "Object", "Array", "Null">>

get_initial_input_value_empty(t) == <<>>
get_initial_input_value(t) ==
    CASE t = "Array" -> ArrayText
      [] t = "Object" -> ObjectText
      [] t = "Bool" -> FalseText
      [] t = "Null" -> NullText
      [] t = "Number" -> <<>>
      [] t = "String" -> <<>>

\* --------------------------------------------------------------- IndexMap
Entry(k, v) == [key |-> k, value |-> v]
Keys(m) == [j \in 1..Len(m) |-> m[j].key]
HasKey(m, k) == \E j \in 1..Len(m) : m[j].key = k
\* IndexMap::get_index_of (0-based)
get_index_of(m, k) ==
    IF HasKey(m, k) THEN Some((CHOOSE j \in 1..Len(m) : m[j].key = k) - 1)
    ELSE None
\* IndexMap::get
Get(m, k) ==
    IF HasKey(m, k) THEN Some(m[Unwrap(get_index_of(m, k)) + 1].value) ELSE None
\* IndexMap::get_index (0-based)
get_index(m, i) == IF i < Len(m) THEN Some(m[i + 1]) ELSE None
\* An insert that re-inserts an updated key at the end.
insert_moves_updated_key_last(m, k, v) ==
    Append(SelectSeq(m, LAMBDA e : e.key # k), Entry(k, v))
\* IndexMap::insert: an existing key keeps its position, a new key goes last.
insert(m, k, v) ==
    IF HasKey(m, k)
    THEN [j \in 1..Len(m) |-> IF m[j].key = k THEN Entry(k, v) ELSE m[j]]
    ELSE Append(m, Entry(k, v))
\* IndexMap::shift_remove: the entries after the removed one move up.
shift_remove(m, k) == SelectSeq(m, LAMBDA e : e.key # k)

\* ----------------------------------------------------------- TraversalKey
TKString(s) == [kind |-> "String", s |-> s, i |-> 0]
TKIndex(i) == [kind |-> "Index", s |-> <<>>, i |-> i]
\* impl Display for TraversalKey
TraversalKeyToString(key) ==
    IF key.kind = "String" THEN key.s ELSE UsizeToString(key.i)

\* ------------------------------------------------------------------ state
VARIABLES
    key_input,            \* App.key_input
    value_input,          \* App.value_input
    pairs,                \* App.pairs, the document root
    edit_popup_focus,     \* Option<EditFocus>
    exit_popup_focus,     \* Option<ExitFocus>
    available_bindings,   \* Vec<(Binding, InputAction)>
    list_ui_state,        \* ListState.selected of the pairs list
    selected_value_type,  \* JsonValueType
    type_list_ui_state,   \* ListState.selected of the type list
    type_list_open,
    target_delete_key,    \* Option<String>
    target_write_file,    \* Option<String>
    error_fields,         \* Vec<TextField>
    traversal_path,       \* Vec<TraversalKey>
    current_screen,       \* AppScreen
    pc,                   \* run_app: "await" (waiting for a key) or "done" (returned)
    action,               \* the InputAction handle_input resolved, "" for none or a move
    outcome,              \* what run_app returned: "running", "save", "discard", an error
    events,               \* key presses counted against MaxEvents so far
    popup,                \* history: what opened the edit popup, "new" (OpenNewPairPopup),
                          \* "edit" (CursorSelect), "none" off the Editing screen
    written,              \* the file App::write has written, [path, contents], or none
    held_view             \* the Result a caller holds from its last call of
                          \* get_visible_pairs, or none

app == <<key_input, value_input, pairs, edit_popup_focus, exit_popup_focus,
         available_bindings, list_ui_state, selected_value_type,
         type_list_ui_state, type_list_open, target_delete_key,
         target_write_file, error_fields, traversal_path, current_screen>>
vars == <<app, pc, action, outcome, events, popup, written, held_view>>

\* -------------------------------------------------------------- Navigator
Ok(v) == [ok |-> TRUE, val |-> v, err |-> None]
Err(key, idx) == [ok |-> FALSE, val |-> <<>>, err |-> Some([key |-> key, idx |-> idx])]

\* Rows keyed by positions counted from one.
ArrayRowsFromOne(a) == [j \in 1..Len(a) |-> Entry(UsizeToString(j), a[j])]
\* The rows an Array shows: its elements keyed by their position as text.
ArrayRows(a) == [j \in 1..Len(a) |-> Entry(UsizeToString(j - 1), a[j])]

\* A loop that reports a failing step with its position counted from 1.
RECURSIVE VisibleFromCountingFromOne(_, _, _)
VisibleFromCountingFromOne(result, path, idx) ==
    IF idx > Len(path) THEN Ok(result)
    ELSE LET key == path[idx] IN
         IF key.kind = "String"
         THEN LET got == Get(result, key.s) IN
              IF IsSome(got) /\ Unwrap(got).type = "Object"
              THEN VisibleFromCountingFromOne(Unwrap(got).o, path, idx + 1)
              ELSE Err(key, idx)
         ELSE LET got == Get(result, UsizeToString(key.i)) IN
              IF IsSome(got) /\ Unwrap(got).type = "Array"
              THEN VisibleFromCountingFromOne(ArrayRows(Unwrap(got).a), path, idx + 1)
              ELSE VisibleFromCountingFromOne(result, path, idx + 1)
\* The loop of get_visible_pairs from step number idx (1-based) on.
RECURSIVE VisibleFrom(_, _, _)
VisibleFrom(result, path, idx) ==
    IF idx > Len(path) THEN Ok(result)
    ELSE LET key == path[idx] IN
         IF key.kind = "String"
         THEN LET got == Get(result, key.s) IN
              IF IsSome(got) /\ Unwrap(got).type = "Object"
              THEN VisibleFrom(Unwrap(got).o, path, idx + 1)
              ELSE Err(key, idx - 1)
         ELSE LET got == Get(result, UsizeToString(key.i)) IN
              IF IsSome(got) /\ Unwrap(got).type = "Array"
              THEN VisibleFrom(ArrayRows(Unwrap(got).a), path, idx + 1)
              ELSE VisibleFrom(result, path, idx + 1)

\* A projection that starts from an empty map instead of a copy of the root.
VisiblePairsFromEmptyMap(doc, path) == VisibleFrom(<<>>, path, 1)
\* App::get_visible_pairs for a document and a path
VisiblePairs(doc, path) == VisibleFrom(doc, path, 1)
get_visible_pairs == VisiblePairs(pairs, traversal_path)

\* The value save_editing builds from the buffer and the selected type.
NewValue(type, input) ==
    CASE type = "Number" ->
            JNumber(IF IsSome(ParseF64(input)) THEN Unwrap(ParseF64(input)) ELSE 0)
      [] type = "Bool" ->
            JBool(IF IsSome(ParseBool(input)) THEN Unwrap(ParseBool(input)) ELSE FALSE)
      [] type = "String" -> JString(input)
      [] type = "Null" -> JNull
      [] type = "Object" -> JObject(<<>>)
      [] type = "Array" -> JArray(<<>>)

\* A walk that writes into the object where it stops instead of dropping the
\* write.
RECURSIVE traverse_and_update_writes_where_it_stops(_, _, _, _)
traverse_and_update_writes_where_it_stops(current, path, key, new_value) ==
    IF path = <<>> THEN insert(current, key, new_value)
    ELSE LET step == Head(path) IN
         IF /\ step.kind = "String"
            /\ IsSome(Get(current, step.s))
            /\ Unwrap(Get(current, step.s)).type = "Object"
         THEN [j \in 1..Len(current) |->
                 IF current[j].key = step.s
                 THEN Entry(step.s, JObject(traverse_and_update_writes_where_it_stops(
                          current[j].value.o, Tail(path), key, new_value)))
                 ELSE current[j]]
         ELSE insert(current, key, new_value)
\* fn traverse_and_update inside save_editing
RECURSIVE traverse_and_update(_, _, _, _)
traverse_and_update(current, path, key, new_value) ==
    IF path = <<>> THEN insert(current, key, new_value)
    ELSE LET step == Head(path) IN
         IF /\ step.kind = "String"
            /\ IsSome(Get(current, step.s))
            /\ Unwrap(Get(current, step.s)).type = "Object"
         THEN [j \in 1..Len(current) |->
                 IF current[j].key = step.s
                 THEN Entry(step.s, JObject(traverse_and_update(
                          current[j].value.o, Tail(path), key, new_value)))
                 ELSE current[j]]
         ELSE current

\* A write that ignores the path and inserts into the root.
save_editing_into_root(doc, path, key, type, input) ==
    insert(doc, key, NewValue(type, input))
\* App::save_editing: the document after the write
save_editing(doc, path, key, type, input) ==
    traverse_and_update(doc, path, key, NewValue(type, input))

\* ----------------------------------------------------------- serialization
\* The text serde_json::to_string writes, compact, through impl Serialize for
\* JsonValue.
RECURSIVE Concat(_)
Concat(parts) == IF parts = <<>> THEN <<>> ELSE Head(parts) \o Concat(Tail(parts))

\* parts joined with commas
RECURSIVE Join(_)
Join(parts) ==
    IF Len(parts) <= 1 THEN Concat(parts)
    ELSE Head(parts) \o <<",">> \o Join(Tail(parts))

\* serde_json's string escapes, for the characters a buffer of the model can
\* hold.
EscapeChar(c) ==
    CASE c = "\"" -> <<"\\", "\"">>
      [] c = "\\" -> <<"\\", "\\">>
      [] c = "\n" -> <<"\\", "n">>
      [] c = "\t" -> <<"\\", "t">>
      [] OTHER -> <<c>>
serialize_str(s) ==
    <<"\"">> \o Concat([j \in 1..Len(s) |-> EscapeChar(s[j])]) \o <<"\"">>

\* serialize_f64 of a finite double: always with a decimal point.
serialize_f64(n) ==
    LET mag == IF n < 0 THEN 0 - n ELSE n
    IN  (IF n < 0 THEN <<"-">> ELSE <<>>) \o UsizeToString(mag \div NumScale)
        \o <<".", Digits[(mag % NumScale) + 1]>>
\* serialize_i64 and serialize_u64 of an integer (the casts `as i64` and
\* `as u64` of a whole double in range keep its value; the model's numbers
\* are far inside both ranges).
serialize_i64(i) ==
    IF i < 0 THEN <<"-">> \o UsizeToString(0 - i) ELSE UsizeToString(i)
serialize_u64(u) == UsizeToString(u)

\* A Number arm that always writes the double as it is.
SerializeNumberAsFloat(n) == serialize_f64(n)
\* The JsonValue::Number arm of serialize, for a number n held in tenths.
SerializeNumber(n) ==
    IF n % NumScale # 0 THEN serialize_f64(n)
    ELSE IF n < 0 THEN serialize_i64(0 - ((0 - n) \div NumScale))
    ELSE serialize_u64(n \div NumScale)

RECURSIVE SerializeValue(_)
RECURSIVE SerializeMap(_)
\* impl serde::Serialize for JsonValue
SerializeValue(v) ==
    CASE v.type = "Number" -> SerializeNumber(v.n)
      [] v.type = "String" -> serialize_str(v.s)
      [] v.type = "Bool" -> BoolToString(v.b)
      [] v.type = "Null" -> NullText
      [] v.type = "Object" -> SerializeMap(v.o)
      [] v.type = "Array" ->
            <<"[">> \o Join([j \in 1..Len(v.a) |-> SerializeValue(v.a[j])]) \o <<"]">>
\* A map, entry by entry in iteration order.
SerializeMap(m) ==
    <<"{">>
    \o Join([j \in 1..Len(m) |->
                 serialize_str(m[j].key) \o <<":">> \o SerializeValue(m[j].value)])
    \o <<"}">>

\* App::serialize
serialize(doc) == SerializeMap(doc)

\* App::write: the file it leaves, none without a target file (the file system
\* takes the write).
write(doc, file) ==
    IF IsSome(file) THEN Some([path |-> Unwrap(file), contents |-> serialize(doc)])
    ELSE None

\* ------------------------------------------------------------- ListState
select_next(sel) ==
    IF sel = None THEN Some(0)
    ELSE Some(IF Unwrap(sel) = UsizeMax THEN UsizeMax ELSE Unwrap(sel) + 1)
select_previous(sel) ==
    IF sel = None THEN Some(UsizeMax)
    ELSE Some(IF Unwrap(sel) = 0 THEN 0 ELSE Unwrap(sel) - 1)
\* What rendering a List of n items leaves in its ListState.
RenderList(sel, n) ==
    IF n = 0 THEN None
    ELSE IF IsSome(sel) /\ Unwrap(sel) >= n THEN Some(n - 1)
    ELSE sel

\* ----------------------------------------------------------- update_state
B(binding, act) == <<binding, act>>
InsertAt(seq, idx, item) ==
    SubSeq(seq, 1, idx) \o <<item>> \o SubSeq(seq, idx + 1, Len(seq))
IsContainer(v) == v.type \in {"Object", "Array"}

\* A delete-confirmation table that also binds Quit.
DeleteBindingsWithQuit ==
    <<B("y", "DeleteYes"), B("n", "DeleteNo"), B("q", "Quit")>>
\* The table of the Main arm while the delete modal is open.
DeleteBindings == <<B("y", "DeleteYes"), B("n", "DeleteNo")>>

\* The AppScreen::Main arm of update_state; fails when get_visible_pairs does.
MainBindings(target, doc, path, sel) ==
    IF IsSome(target)
    THEN Ok(DeleteBindings)
    ELSE
    LET vis == VisiblePairs(doc, path)
        base == <<B("e", "OpenNewPairPopup"), B("q", "Quit"), B("p", "Preview")>>
        moves == IF vis.val # <<>>
                 THEN <<B("Down", "CursorDown"), B("Up", "CursorUp")>> ELSE <<>>
        row == IF IsSome(sel) THEN get_index(vis.val, Unwrap(sel)) ELSE None
        open == IF IsSome(row) /\ IsContainer(Unwrap(row).value)
                THEN <<B("Right", "CursorTraverse")>> ELSE <<>>
        onRow == IF IsSome(sel)
                 THEN open \o <<B("Enter", "CursorSelect"), B("Esc", "CursorCancel"),
                                B("Backspace", "RequestPairDelete")>>
                 ELSE <<>>
        result == base \o moves \o onRow
        back == B("Left", "CursorReturn")
        ups == {j \in 1..Len(result) : result[j][2] = "CursorUp"}
    IN  IF ~vis.ok THEN vis
        ELSE IF path = <<>> THEN Ok(result)
        ELSE IF ups # {} THEN Ok(InsertAt(result, CHOOSE j \in ups : TRUE, back))
        ELSE Ok(Append(result, back))

\* The AppScreen::Editing arm of update_state
EditingBindings(focus, type) ==
    <<B("Enter", "EditingSubmit"), B("Tab", "EditingToggleField"),
      B("Esc", "EditingCancel"), B("Up", "EditingUp"), B("Down", "EditingDown"),
      B("Left", "EditingLeft"), B("Right", "EditingRight")>>
    \o (CASE focus = Some("Value") ->
               <<B("Backspace", "BackspaceFieldText(Value)"),
                 B("TextEntry", "EnterFieldText(Value)")>>
               \o (IF type = "Bool" THEN <<B("t", "EditingBoolToggle")>> ELSE <<>>)
          [] focus = Some("Key") ->
               <<B("Backspace", "BackspaceFieldText(Key)"),
                 B("TextEntry", "EnterFieldText(Key)")>>
          [] OTHER -> <<>>)

\* An Exiting table that also binds Preview.
ExitingBindingsWithPreview(focus) ==
    <<B("Esc", "ExitCancel"), B("Up", "ExitUp"), B("Down", "ExitDown"),
      B("Left", "ExitLeft"), B("Right", "ExitRight"),
      B("Enter", "ExitCursorSelect"), B("Tab", "Preview")>>
\* The AppScreen::Exiting arm of update_state
ExitingBindings(focus) ==
    <<B("Esc", "ExitCancel"), B("Up", "ExitUp"), B("Down", "ExitDown"),
      B("Left", "ExitLeft"), B("Right", "ExitRight"),
      B("Enter", "ExitCursorSelect")>>
    \o (IF focus = Some("Input")
        THEN <<B("Backspace", "BackspaceFieldText(OutputFile)"),
               B("TextEntry", "EnterFieldText(OutputFile)")>>
        ELSE <<>>)

\* The table update_state computes, or the error it returns instead.
ComputedBindings(screen, target, doc, path, sel, editFocus, type, exitFocus) ==
    CASE screen = "Main" -> MainBindings(target, doc, path, sel)
      [] screen = "Editing" -> Ok(EditingBindings(editFocus, type))
      [] screen = "Exiting" -> Ok(ExitingBindings(exitFocus))
      [] screen = "Preview" -> Ok(<<B("Esc", "ExitPreview")>>)

\* ------------------------------------------------------------ key events
SpecialKeys == {"Enter", "Tab", "Esc", "Up", "Down", "Left", "Right", "Backspace"}
CommandChars == {"e", "q", "p", "y", "n"}
TextChars == {"t", "1"}
Chars == CommandChars \cup TextChars
KeyCodes == SpecialKeys \cup Chars
KeyEventKinds == {"Press", "Repeat", "Release"}
KeyEvents == [code : KeyCodes, kind : KeyEventKinds]

\* The keys the user is taken to press: the letters bound on the main screen
\* are pressed there only, text is typed with the characters of TextChars.
Offered(code) == code \in CommandChars => current_screen = "Main"

\* The first check of handle_input: an event of this kind goes on to the
\* binding lookup; only a Release returns at once.
Listened(kind) == kind # "Release"

\* The loop of handle_input over the table, from entry j on: a Static binding
\* with the key's code ends the loop with its action; a TextEntry binding is
\* remembered (text_entry_action, "" for none) when the key is a character.
\* After the last entry the remembered action is what is left.
RECURSIVE LookupFrom(_, _, _, _)
LookupFrom(bindings, code, j, text_entry_action) ==
    IF j > Len(bindings) THEN text_entry_action
    ELSE IF bindings[j][1] = "TextEntry"
    THEN LookupFrom(bindings, code, j + 1,
                    IF code \in Chars THEN bindings[j][2] ELSE text_entry_action)
    ELSE IF bindings[j][1] = code THEN bindings[j][2]
    ELSE LookupFrom(bindings, code, j + 1, text_entry_action)

\* A lookup in which a TextEntry binding seen before the exact one wins.
ResolveActionWildcardFirst(bindings, code) ==
    LET wild == {j \in 1..Len(bindings) : bindings[j][1] = "TextEntry"}
        exact == {j \in 1..Len(bindings) : bindings[j][1] = code}
    IN  IF code \in Chars /\ \E w \in wild : \A e \in exact : w < e
        THEN bindings[CHOOSE w \in wild : \A e \in exact : w < e][2]
        ELSE LookupFrom(bindings, code, 1, "")
\* The binding lookup at the head of handle_input: the action the key resolves
\* to, "" for none.
ResolveAction(bindings, code) == LookupFrom(bindings, code, 1, "")

\* The moves, which are not counted against MaxEvents.  EditingSubmit is a move
\* when it only advances the focus or opens the type list.
Cost(a) ==
    CASE a \in {"", "CursorUp", "CursorDown", "CursorCancel", "EditingToggleField",
                "EditingLeft", "EditingRight", "EditingUp", "EditingDown",
                "ExitLeft", "ExitRight", "ExitUp", "ExitDown"} -> 0
      [] a = "EditingSubmit" ->
            IF type_list_open \/ edit_popup_focus = Some("Value") THEN 1 ELSE 0
      [] OTHER -> 1

\* run_app is waiting for a key and the table binds action a.
Bound(a) ==
    /\ pc = "await"
    /\ events < MaxEvents
    /\ \E j \in 1..Len(available_bindings) : available_bindings[j][2] = a

\* handle_input reaches the arm of action a on a key event with this code:
\* the event is no Release, and the lookup yields a.
ResolvesWith(code, a) ==
    /\ Offered(code)
    /\ \E kind \in KeyEventKinds : Listened(kind)
    /\ ResolveAction(available_bindings, code) = a

\* Some key event makes handle_input reach the arm of action a (a truth value:
\* which key it was is not part of the step).
Resolves(a) == Bound(a) /\ (\E code \in KeyCodes : ResolvesWith(code, a)) = TRUE

\* ------------------------------------------------------------ App methods
\* App::clear_editing_state, as the values it leaves in the five fields
\* <<key_input, value_input, edit_popup_focus, selected_value_type,
\*   type_list_ui_state.selected>>.
clear_editing_state_keeps_key ==
    <<key_input, get_initial_input_value("String"), None, "String", None>>

clear_editing_state == <<<<>>, get_initial_input_value("String"), None, "String", None>>

\* App::goto_screen(new_screen) applied to edit state e (the five fields above)
\* and the exit focus x: the edit state and exit focus it leaves.
goto_screen(new_screen, e, x) ==
    LET left == IF current_screen = "Editing" THEN clear_editing_state ELSE e
    IN  [edit |-> IF new_screen = "Editing"
                  THEN <<left[1], left[2], Some("Key"), left[4], left[5]>>
                  ELSE left,
         exit |-> IF new_screen = "Exiting" THEN Some("Input") ELSE x]

EditState == <<key_input, value_input, edit_popup_focus, selected_value_type,
               type_list_ui_state>>
\* The first four fields of an edit state are stored as they are; the fifth,
\* the type list's selection, goes through the next draw (see Continue).
SetEditState(e) ==
    /\ key_input' = e[1]
    /\ value_input' = e[2]
    /\ edit_popup_focus' = e[3]
    /\ selected_value_type' = e[4]

\* An Editing arm of update_state that leaves the pairs list's selection alone.
EditingArmKeepsSelection(screen, sel) == sel
\* The pairs list's selection update_state leaves: its Editing arm clears it.
EditingArmSelection(screen, sel) == IF screen = "Editing" THEN None ELSE sel

\* handle_input returns Ok(None) from the arm of action a, leaving the pairs
\* list's selection sel and the type list's selection tsel; run_app's loop goes
\* round: update_state (its error is dropped by run_app, the old table stays),
\* then the draw, which renders the pairs list over App.pairs and, when the
\* type list is open, the type list; then the next key is awaited.
Continue(a, sel, tsel) ==
    LET selU == EditingArmSelection(current_screen', sel)
        tselU == IF current_screen' = "Editing" /\ type_list_open' /\ ~IsSome(tsel)
                 THEN Some(0) ELSE tsel
        table == ComputedBindings(current_screen', target_delete_key', pairs',
                     traversal_path', selU, edit_popup_focus',
                     selected_value_type', exit_popup_focus')
    IN  /\ available_bindings' = IF table.ok THEN table.val ELSE available_bindings
        /\ list_ui_state' = RenderList(selU, Len(pairs'))
        /\ type_list_ui_state' =
               IF IsSome(edit_popup_focus') /\ type_list_open'
               THEN RenderList(tselU, Len(all_value_types)) ELSE tselU
        /\ pc' = "await"
        /\ action' = IF Cost(a) = 0 THEN "" ELSE a
        /\ events' = events + Cost(a)
        /\ outcome' = outcome
        /\ popup' = CASE current_screen' # "Editing" -> "none"
                      [] a = "OpenNewPairPopup" -> "new"
                      [] a = "CursorSelect" -> "edit"
                      [] OTHER -> popup
        /\ written' = written
        /\ held_view' = held_view

\* handle_input returns Ok(Some(_)) or Err(_), or panics: run_app ends, and
\* main calls App::write when should_save was returned and the session was not
\* started with --dry.
Return(a, result, sel, tsel) ==
    /\ available_bindings' = available_bindings
    /\ list_ui_state' = sel
    /\ type_list_ui_state' = tsel
    /\ pc' = "done"
    /\ action' = a
    /\ events' = events + Cost(a)
    /\ outcome' = result
    /\ popup' = popup
    /\ held_view' = held_view
    /\ \E dry \in BOOLEAN :
          written' = IF ~dry /\ result = "save"
                     THEN write(pairs', target_write_file') ELSE written

\* A handler that is one call of goto_screen.
GotoScreen(a, new_screen) ==
    LET g == goto_screen(new_screen, EditState, exit_popup_focus)
    IN  /\ SetEditState(g.edit)
        /\ exit_popup_focus' = g.exit
        /\ current_screen' = new_screen
        /\ UNCHANGED <<pairs, type_list_open, target_delete_key, target_write_file,
                       error_fields, traversal_path>>
        /\ Continue(a, list_ui_state, g.edit[5])

\* App::validate_fields: the error_fields it computes for a screen.
validate_fields(screen, type, input, file) ==
    CASE screen = "Editing" ->
            LET valid == CASE type = "Number" -> IsSome(ParseF64(input))
                           [] type = "Bool" -> IsSome(ParseBool(input))
                           [] type = "String" -> TRUE
                           [] OTHER -> input = get_initial_input_value(type)
            IN  IF valid THEN <<>> ELSE <<"Value">>
      [] screen = "Exiting" ->
            IF IsSome(file) /\ ~TrimIsEmpty(Unwrap(file)) THEN <<>> ELSE <<"OutputFile">>
      [] OTHER -> <<>>

\* The text open_item_edit puts in value_input for a value.
ValueText(v) ==
    CASE v.type = "String" -> v.s
      [] v.type = "Bool" -> BoolToString(v.b)
      [] v.type = "Number" -> F64ToString(v.n)
      [] v.type = "Null" -> get_initial_input_value("Null")
      [] v.type = "Object" -> get_initial_input_value("Object")
      [] v.type = "Array" -> get_initial_input_value("Array")

\* String::pop
Pop(s) == IF s = <<>> THEN s ELSE SubSeq(s, 1, Len(s) - 1)

\* ------------------------------------------------- handle_input, by action
\* A key that is released, or that no binding matches: nothing changes.
Ignored ==
    /\ pc = "await"
    /\ events < MaxEvents
    /\ (\E ev \in KeyEvents :
           /\ Offered(ev.code)
           /\ ~Listened(ev.kind) \/ ResolveAction(available_bindings, ev.code) = "")
       = TRUE
    /\ UNCHANGED <<key_input, value_input, pairs, edit_popup_focus,
                   exit_popup_focus, selected_value_type, type_list_open,
                   target_delete_key, target_write_file, error_fields,
                   traversal_path, current_screen>>
    /\ Continue("", list_ui_state, type_list_ui_state)

EnterFieldText ==
    \E field \in {"Key", "Value", "OutputFile"}, code \in KeyCodes :
        LET a == "EnterFieldText(" \o field \o ")" IN
        /\ Bound(a)
        /\ ResolvesWith(code, a)
        /\ IF code \in Chars
           THEN /\ key_input' = IF field = "Key" THEN Append(key_input, code)
                                ELSE key_input
                /\ value_input' = IF field = "Value" THEN Append(value_input, code)
                                  ELSE value_input
                /\ target_write_file' =
                       IF field # "OutputFile" THEN target_write_file
                       ELSE IF IsSome(target_write_file)
                       THEN Some(Append(Unwrap(target_write_file), code))
                       ELSE Some(<<code>>)
           ELSE UNCHANGED <<key_input, value_input, target_write_file>>
        /\ UNCHANGED <<pairs, edit_popup_focus, exit_popup_focus,
                       selected_value_type, type_list_open, target_delete_key,
                       error_fields, traversal_path, current_screen>>
        /\ Continue(a, list_ui_state, type_list_ui_state)

BackspaceFieldText ==
    \E field \in {"Key", "Value", "OutputFile"} :
        LET a == "BackspaceFieldText(" \o field \o ")" IN
        /\ Resolves(a)
        /\ key_input' = IF field = "Key" THEN Pop(key_input) ELSE key_input
        /\ value_input' = IF field = "Value" THEN Pop(value_input) ELSE value_input
        /\ target_write_file' =
               IF field # "OutputFile" \/ ~IsSome(target_write_file)
               THEN target_write_file
               ELSE IF Pop(Unwrap(target_write_file)) = <<>> THEN None
               ELSE Some(Pop(Unwrap(target_write_file)))
        /\ UNCHANGED <<pairs, edit_popup_focus, exit_popup_focus,
                       selected_value_type, type_list_open, target_delete_key,
                       error_fields, traversal_path, current_screen>>
        /\ Continue(a, list_ui_state, type_list_ui_state)

ExitCancel == Resolves("ExitCancel") /\ GotoScreen("ExitCancel", "Main")

Quit == Resolves("Quit") /\ GotoScreen("Quit", "Exiting")

OpenNewPairPopup ==
    Resolves("OpenNewPairPopup") /\ GotoScreen("OpenNewPairPopup", "Editing")

Preview == Resolves("Preview") /\ GotoScreen("Preview", "Preview")

ExitPreview == Resolves("ExitPreview") /\ GotoScreen("ExitPreview", "Main")

EditingCancel ==
    /\ Resolves("EditingCancel")
    /\ IF type_list_open
       THEN /\ type_list_open' = FALSE
            /\ UNCHANGED <<key_input, value_input, edit_popup_focus,
                           selected_value_type, exit_popup_focus, current_screen>>
            /\ UNCHANGED <<pairs, target_delete_key, target_write_file,
                           error_fields, traversal_path>>
            /\ Continue("EditingCancel", list_ui_state, type_list_ui_state)
       ELSE LET g == goto_screen("Main", clear_editing_state, exit_popup_focus)
            IN  /\ SetEditState(g.edit)
                /\ exit_popup_focus' = g.exit
                /\ current_screen' = "Main"
                /\ UNCHANGED type_list_open
                /\ UNCHANGED <<pairs, target_delete_key, target_write_file,
                               error_fields, traversal_path>>
                /\ Continue("EditingCancel", list_ui_state, g.edit[5])

EditingToggleField ==
    /\ Resolves("EditingToggleField")
    /\ edit_popup_focus' =
           CASE edit_popup_focus = Some("Key") -> Some("Value")
             [] edit_popup_focus = Some("Value") -> Some("Key")
             [] edit_popup_focus = Some("Type") -> Some("Key")
             [] OTHER -> edit_popup_focus
    /\ UNCHANGED <<key_input, value_input, pairs, exit_popup_focus,
                   selected_value_type, type_list_open, target_delete_key,
                   target_write_file, error_fields, traversal_path,
                   current_screen>>
    /\ Continue("EditingToggleField", list_ui_state, type_list_ui_state)

\* The arm of EditingSubmit taken with the type list open and entry idx chosen:
\* App::select_value_type on the idx-th value type.
SubmitTypeChoice(idx) ==
    /\ type_list_open' = FALSE
    /\ selected_value_type' = all_value_types[idx + 1]
    /\ value_input' = get_initial_input_value(all_value_types[idx + 1])
    /\ UNCHANGED <<key_input, pairs, edit_popup_focus, exit_popup_focus,
                   current_screen>>
    /\ Continue("EditingSubmit", list_ui_state, type_list_ui_state)

\* The arm of EditingSubmit taken with focus on Value: the write (main.rs
\* calls it save_key_value, app.rs defines it as save_editing), then
\* clear_editing_state and goto_screen(Main).
SubmitValue ==
    /\ pairs' = save_editing(pairs, traversal_path, key_input,
                             selected_value_type, value_input)
    /\ LET g == goto_screen("Main", clear_editing_state, exit_popup_focus)
       IN  /\ SetEditState(g.edit)
           /\ exit_popup_focus' = g.exit
           /\ current_screen' = "Main"
           /\ UNCHANGED type_list_open
           /\ Continue("EditingSubmit", list_ui_state, g.edit[5])

EditingSubmit ==
    /\ Resolves("EditingSubmit")
    /\ UNCHANGED <<target_delete_key, target_write_file, error_fields,
                   traversal_path>>
    /\ IF type_list_open
       THEN IF ~IsSome(type_list_ui_state)
            THEN /\ UNCHANGED <<key_input, value_input, pairs, edit_popup_focus,
                                selected_value_type, type_list_open,
                                exit_popup_focus, current_screen>>
                 /\ Continue("EditingSubmit", list_ui_state, type_list_ui_state)
            ELSE IF Unwrap(type_list_ui_state) >= Len(all_value_types)
            THEN /\ type_list_open' = FALSE
                 /\ UNCHANGED <<key_input, value_input, pairs, edit_popup_focus,
                                selected_value_type, exit_popup_focus,
                                current_screen>>
                 /\ Return("EditingSubmit", "panic", list_ui_state,
                           type_list_ui_state)
            ELSE SubmitTypeChoice(Unwrap(type_list_ui_state))
       ELSE CASE edit_popup_focus = Some("Key") ->
                   /\ edit_popup_focus' = Some("Value")
                   /\ UNCHANGED <<key_input, value_input, pairs,
                                  selected_value_type, type_list_open,
                                  exit_popup_focus, current_screen>>
                   /\ Continue("EditingSubmit", list_ui_state, type_list_ui_state)
              [] edit_popup_focus = Some("Value") -> SubmitValue
              [] edit_popup_focus = Some("Type") ->
                   /\ type_list_open' = TRUE
                   /\ UNCHANGED <<key_input, value_input, pairs,
                                  edit_popup_focus, selected_value_type,
                                  exit_popup_focus, current_screen>>
                   /\ Continue("EditingSubmit", list_ui_state, type_list_ui_state)
              [] OTHER ->
                   /\ UNCHANGED <<key_input, value_input, pairs, edit_popup_focus,
                                  selected_value_type, type_list_open,
                                  exit_popup_focus, current_screen>>
                   /\ Continue("EditingSubmit", list_ui_state, type_list_ui_state)

\* EditingLeft, EditingRight, EditingUp, EditingDown: the focus each leaves.
EditingMove(a) ==
    CASE a = "EditingLeft" ->
            IF edit_popup_focus \in {Some("Value"), Some("Type")} THEN Some("Key")
            ELSE edit_popup_focus
      [] a = "EditingRight" ->
            IF edit_popup_focus \in {Some("Key"), Some("Type")} THEN Some("Value")
            ELSE edit_popup_focus
      [] a = "EditingUp" ->
            IF edit_popup_focus = Some("Type") THEN Some("Key") ELSE edit_popup_focus
      [] a = "EditingDown" ->
            IF edit_popup_focus \in {Some("Key"), Some("Value")} THEN Some("Type")
            ELSE edit_popup_focus

EditingArrow ==
    \E a \in {"EditingLeft", "EditingRight", "EditingUp", "EditingDown"} :
        /\ Resolves(a)
        /\ UNCHANGED <<key_input, value_input, pairs, exit_popup_focus,
                       selected_value_type, type_list_open, target_delete_key,
                       target_write_file, error_fields, traversal_path,
                       current_screen>>
        /\ IF type_list_open /\ a \in {"EditingUp", "EditingDown"}
           THEN /\ UNCHANGED edit_popup_focus
                /\ Continue(a, list_ui_state,
                            IF a = "EditingUp"
                            THEN select_previous(type_list_ui_state)
                            ELSE select_next(type_list_ui_state))
           ELSE /\ edit_popup_focus' = EditingMove(a)
                /\ Continue(a, list_ui_state, type_list_ui_state)

\* EditingBoolToggle unwraps the parse: a buffer that is no boolean panics.
EditingBoolToggle ==
    /\ Resolves("EditingBoolToggle")
    /\ UNCHANGED <<key_input, pairs, edit_popup_focus, exit_popup_focus,
                   selected_value_type, type_list_open, target_delete_key,
                   target_write_file, error_fields, traversal_path,
                   current_screen>>
    /\ IF IsSome(ParseBool(value_input))
       THEN /\ value_input' = BoolToString(~Unwrap(ParseBool(value_input)))
            /\ Continue("EditingBoolToggle", list_ui_state, type_list_ui_state)
       ELSE /\ UNCHANGED value_input
            /\ Return("EditingBoolToggle", "panic", list_ui_state,
                      type_list_ui_state)

\* ExitLeft, ExitRight, ExitUp, ExitDown: the focus each leaves.
ExitMove(a) ==
    IF ~IsSome(exit_popup_focus) THEN None
    ELSE CASE a \in {"ExitLeft", "ExitRight"} ->
                 CASE exit_popup_focus = Some("Positive") -> Some("Negative")
                   [] exit_popup_focus = Some("Negative") -> Some("Positive")
                   [] OTHER -> Some("Input")
           [] a = "ExitUp" -> Some("Input")
           [] a = "ExitDown" ->
                 IF exit_popup_focus = Some("Input") THEN Some("Negative")
                 ELSE exit_popup_focus

ExitArrow ==
    \E a \in {"ExitLeft", "ExitRight", "ExitUp", "ExitDown"} :
        /\ Resolves(a)
        /\ exit_popup_focus' = ExitMove(a)
        /\ UNCHANGED <<key_input, value_input, pairs, edit_popup_focus,
                       selected_value_type, type_list_open, target_delete_key,
                       target_write_file, error_fields, traversal_path,
                       current_screen>>
        /\ Continue(a, list_ui_state, type_list_ui_state)

\* An exit that asks for a save whatever the focus.
should_save_always(focus) == TRUE
\* The should_save ExitCursorSelect returns for a focus: false on the discard
\* button only.
should_save(focus) == focus # Some("Negative")

\* ExitCursorSelect: run_app returns should_save.
ExitCursorSelect ==
    /\ Resolves("ExitCursorSelect")
    /\ UNCHANGED <<key_input, value_input, pairs, edit_popup_focus,
                   exit_popup_focus, selected_value_type, type_list_open,
                   target_delete_key, target_write_file, error_fields,
                   traversal_path, current_screen>>
    /\ CASE ~IsSome(exit_popup_focus) ->
                Continue("ExitCursorSelect", list_ui_state, type_list_ui_state)
         [] OTHER ->
                Return("ExitCursorSelect",
                       IF should_save(exit_popup_focus) THEN "save" ELSE "discard",
                       list_ui_state, type_list_ui_state)

CursorMove ==
    \E a \in {"CursorUp", "CursorDown", "CursorCancel"} :
        /\ Resolves(a)
        /\ UNCHANGED <<key_input, value_input, pairs, edit_popup_focus,
                       exit_popup_focus, selected_value_type, type_list_open,
                       target_delete_key, target_write_file, error_fields,
                       traversal_path, current_screen>>
        /\ Continue(a,
                    CASE a = "CursorUp" -> select_previous(list_ui_state)
                      [] a = "CursorDown" -> select_next(list_ui_state)
                      [] a = "CursorCancel" -> None,
                    type_list_ui_state)

\* App::open_item_edit(index) on an entry that exists: the edit state and exit
\* focus it leaves (the entry is looked up in App.pairs).
open_item_edit(entry) ==
    LET g == goto_screen("Editing",
                 <<entry.key, ValueText(entry.value), edit_popup_focus,
                   selected_value_type, type_list_ui_state>>,
                 exit_popup_focus)
    IN  [edit |-> <<g.edit[1], g.edit[2], Some("Value"), g.edit[4], g.edit[5]>>,
         exit |-> g.exit]

CursorSelect ==
    /\ Resolves("CursorSelect")
    /\ UNCHANGED <<pairs, type_list_open, target_delete_key, target_write_file,
                   error_fields, traversal_path>>
    /\ IF ~IsSome(list_ui_state)
       THEN /\ UNCHANGED <<key_input, value_input, edit_popup_focus,
                           selected_value_type, exit_popup_focus, current_screen>>
            /\ Continue("CursorSelect", list_ui_state, type_list_ui_state)
       ELSE LET entry == get_index(pairs, Unwrap(list_ui_state)) IN
            IF ~IsSome(entry)
            THEN /\ UNCHANGED <<key_input, value_input, edit_popup_focus,
                                selected_value_type, exit_popup_focus,
                                current_screen>>
                 /\ Return("CursorSelect", "FailedToOpenPairEdit", list_ui_state,
                           type_list_ui_state)
            ELSE LET o == open_item_edit(Unwrap(entry)) IN
                 /\ SetEditState(o.edit)
                 /\ exit_popup_focus' = o.exit
                 /\ current_screen' = "Editing"
                 /\ Continue("CursorSelect", list_ui_state, o.edit[5])

\* The key RequestPairDelete makes the pending target for cursor index i: the
\* key of entry i of App.pairs, or nothing when App.pairs has no entry i.
DeleteTarget(doc, i) ==
    IF IsSome(get_index(doc, i)) THEN Some(Unwrap(get_index(doc, i)).key) ELSE None

RequestPairDelete ==
    /\ Resolves("RequestPairDelete")
    /\ UNCHANGED <<key_input, value_input, pairs, edit_popup_focus,
                   exit_popup_focus, selected_value_type, type_list_open,
                   target_write_file, error_fields, traversal_path,
                   current_screen>>
    /\ IF ~IsSome(list_ui_state)
       THEN /\ UNCHANGED target_delete_key
            /\ Continue("RequestPairDelete", list_ui_state, type_list_ui_state)
       ELSE IF ~IsSome(DeleteTarget(pairs, Unwrap(list_ui_state)))
       THEN /\ UNCHANGED target_delete_key
            /\ Return("RequestPairDelete", "NoEntryAtIndex", list_ui_state,
                      type_list_ui_state)
       ELSE /\ target_delete_key' = DeleteTarget(pairs, Unwrap(list_ui_state))
            /\ Continue("RequestPairDelete", list_ui_state, type_list_ui_state)

\* The document DeleteYes leaves: the target is removed from App.pairs.
DeleteEntry(doc, path, target) == shift_remove(doc, target)

DeleteYes ==
    /\ Resolves("DeleteYes")
    /\ IF IsSome(target_delete_key)
       THEN /\ pairs' = DeleteEntry(pairs, traversal_path, Unwrap(target_delete_key))
            /\ target_delete_key' = None
       ELSE UNCHANGED <<pairs, target_delete_key>>
    /\ UNCHANGED <<key_input, value_input, edit_popup_focus, exit_popup_focus,
                   selected_value_type, type_list_open, target_write_file,
                   error_fields, traversal_path, current_screen>>
    /\ Continue("DeleteYes", list_ui_state, type_list_ui_state)

\* A denial that keeps the pending deletion.
DeleteNoKeepsTarget(target) == target
\* The pending deletion DeleteNo leaves.
DeleteNoTarget(target) == None

\* A denial that removes the entry all the same.
DeleteNoRemovesEntry ==
    /\ Resolves("DeleteNo")
    /\ target_delete_key' = DeleteNoTarget(target_delete_key)
    /\ pairs' = IF IsSome(target_delete_key)
                THEN shift_remove(pairs, Unwrap(target_delete_key)) ELSE pairs
    /\ UNCHANGED <<key_input, value_input, edit_popup_focus,
                   exit_popup_focus, selected_value_type, type_list_open,
                   target_write_file, error_fields, traversal_path,
                   current_screen>>
    /\ Continue("DeleteNo", list_ui_state, type_list_ui_state)

DeleteNo ==
    /\ Resolves("DeleteNo")
    /\ target_delete_key' = DeleteNoTarget(target_delete_key)
    /\ UNCHANGED <<key_input, value_input, pairs, edit_popup_focus,
                   exit_popup_focus, selected_value_type, type_list_open,
                   target_write_file, error_fields, traversal_path,
                   current_screen>>
    /\ Continue("DeleteNo", list_ui_state, type_list_ui_state)

\* A traverse_down that pushes the step and clears the cursor.
traverse_down_clears_cursor(path, target) ==
    [path |-> Append(path, target), sel |-> None]
\* App::traverse_down(target): the path and the cursor it leaves.
traverse_down(path, target) == [path |-> Append(path, target), sel |-> Some(0)]

\* A traverse_up that pops the step and leaves the cursor where it was.
traverse_up_keeps_cursor(doc, path, sel) ==
    IF path = <<>> THEN [path |-> path, sel |-> sel, ok |-> TRUE]
    ELSE [path |-> SubSeq(path, 1, Len(path) - 1), sel |-> sel,
          ok |-> VisiblePairs(doc, SubSeq(path, 1, Len(path) - 1)).ok]
\* App::traverse_up: the path and the cursor it leaves, and whether it
\* returned the error of get_visible_pairs (the step is popped before).
traverse_up(doc, path, sel) ==
    IF path = <<>> THEN [path |-> path, sel |-> sel, ok |-> TRUE]
    ELSE LET last_key == path[Len(path)]
             popped == SubSeq(path, 1, Len(path) - 1)
             new_pairs == VisiblePairs(doc, popped)
         IN  IF ~new_pairs.ok THEN [path |-> popped, sel |-> sel, ok |-> FALSE]
             ELSE [path |-> popped,
                   sel |-> get_index_of(new_pairs.val, TraversalKeyToString(last_key)),
                   ok |-> TRUE]

\* The step traverse-in pushes for the selected row: Name(key) for a row
\* holding an Object, Index(row position) for a row holding an Array.
TraverseStep(row, i) ==
    IF row.value.type = "Object" THEN TKString(row.key) ELSE TKIndex(i)

\* The handler of CursorTraverse: traverse_down on the selected container row.
CursorTraverse ==
    /\ Resolves("CursorTraverse")
    /\ UNCHANGED <<key_input, value_input, pairs, edit_popup_focus,
                   exit_popup_focus, selected_value_type, type_list_open,
                   target_delete_key, target_write_file, error_fields,
                   current_screen>>
    /\ LET vis == get_visible_pairs
           row == IF vis.ok /\ IsSome(list_ui_state)
                  THEN get_index(vis.val, Unwrap(list_ui_state)) ELSE None
       IN  IF IsSome(row) /\ IsContainer(Unwrap(row).value)
           THEN LET d == traverse_down(traversal_path,
                             TraverseStep(Unwrap(row), Unwrap(list_ui_state)))
                IN  /\ traversal_path' = d.path
                    /\ Continue("CursorTraverse", d.sel, type_list_ui_state)
           ELSE /\ UNCHANGED traversal_path
                /\ Continue("CursorTraverse", list_ui_state, type_list_ui_state)

\* The handler of CursorReturn: traverse_up, its error ending run_app.
CursorReturn ==
    /\ Resolves("CursorReturn")
    /\ UNCHANGED <<key_input, value_input, pairs, edit_popup_focus,
                   exit_popup_focus, selected_value_type, type_list_open,
                   target_delete_key, target_write_file, error_fields,
                   current_screen>>
    /\ LET u == traverse_up(pairs, traversal_path, list_ui_state)
       IN  /\ traversal_path' = u.path
           /\ IF u.ok THEN Continue("CursorReturn", u.sel, type_list_ui_state)
              ELSE Return("CursorReturn", "InvalidTraversalPath", u.sel,
                          type_list_ui_state)

\* ------------------------------------------------------------------ Init
\* The documents the sessions start from.
DocEmpty == <<>>
DocScenario ==
    <<Entry(<<"a">>, JNumber(1 * NumScale)),
      Entry(<<"b">>, JObject(<<Entry(<<"c">>, JBool(TRUE))>>))>>
DocArrays ==
    <<Entry(<<"0">>, JArray(<<JObject(<<Entry(<<"x">>, JNull)>>),
                               JArray(<<JString(<<"s">>)>>)>>)),
      Entry(<<"k">>, JArray(<<>>))>>

\* ------------------------------------------------------------- App::new
\* A serde_json::Value is held like a JsonValue, except that its numbers are
\* what the parser made of the literal: PosInt(u64), NegInt(i64) or Float(f64,
\* in tenths).
SPosInt(u) == JsonValue("PosInt", u, <<>>, FALSE, <<>>, <<>>)
SNegInt(i) == JsonValue("NegInt", i, <<>>, FALSE, <<>>, <<>>)
SFloat(f) == JsonValue("Float", f, <<>>, FALSE, <<>>, <<>>)

\* JsonValue::from_serde: Number::as_f64 on a number, field by field and
\* element by element on the containers.
RECURSIVE from_serde(_)
from_serde(v) ==
    CASE v.type \in {"PosInt", "NegInt"} -> JNumber(v.n * NumScale)
      [] v.type = "Float" -> JNumber(v.n)
      [] v.type = "Object" ->
            JObject([j \in 1..Len(v.o) |->
                        Entry(v.o[j].key, from_serde(v.o[j].value))])
      [] v.type = "Array" -> JArray([j \in 1..Len(v.a) |-> from_serde(v.a[j])])
      [] OTHER -> v

\* The files of the file system, each held as what serde_json::from_str makes
\* of its text: a value, or nothing when the text is not JSON.
FileScenario ==
    JObject(<<Entry(<<"a">>, SPosInt(1)),
              Entry(<<"b">>, JObject(<<Entry(<<"c">>, JBool(TRUE))>>))>>)
FileArrays == JObject(DocArrays)
FileNotJson == None
FileTopLevelArray == Some(JArray(<<SPosInt(1), SNegInt(0 - 3), SFloat(35)>>))

\* fs::read_to_string(path).ok(): the file's contents, none for a path with
\* no readable file.
read_to_string(path) ==
    CASE path = <<"f">> -> Some([from_str |-> Some(FileScenario)])
      [] path = <<" ">> -> Some([from_str |-> Some(FileArrays)])
      [] path = <<"g">> -> Some([from_str |-> FileNotJson])
      [] path = <<"h">> -> Some([from_str |-> FileTopLevelArray])
      [] OTHER -> None

\* The input_file argument main passes to App::new.
InputFiles == {None, Some(<<"f">>), Some(<<" ">>), Some(<<"g">>), Some(<<"h">>),
               Some(<<"m">>)}

\* The loop of App::new over the top-level fields, from field j on.
RECURSIVE InsertFields(_, _, _)
InsertFields(ret, data, j) ==
    IF j > Len(data) THEN ret
    ELSE InsertFields(insert(ret, data[j].key, from_serde(data[j].value)),
                      data, j + 1)

\* App::new up to its match on data_read_opt: the document of the session, or
\* the error returned instead.
AppNew(input_file_path) ==
    LET input_file_contents ==
            IF IsSome(input_file_path) THEN read_to_string(Unwrap(input_file_path))
            ELSE None
        parsed_data == IF IsSome(input_file_contents)
                       THEN Unwrap(input_file_contents).from_str ELSE None
        data_read_opt ==
            IF ~IsSome(parsed_data) THEN Some(<<>>)
            ELSE IF Unwrap(parsed_data).type = "Object"
            THEN Some(InsertFields(<<>>, Unwrap(parsed_data).o, 1))
            ELSE None
    IN  IF IsSome(input_file_path) /\ ~IsSome(input_file_contents)
        THEN [ok |-> FALSE, val |-> <<>>, err |-> "InputFileNotFound"]
        ELSE IF ~IsSome(data_read_opt)
        THEN [ok |-> FALSE, val |-> <<>>, err |-> "InvalidInputJson"]
        ELSE [ok |-> TRUE, val |-> Unwrap(data_read_opt), err |-> ""]

\* App::new, then run_app up to its first wait for a key; when App::new fails
\* there is no session: main prints the error and exits (the fields then hold
\* what an App would start with, and target_write_file the argument given).
Init ==
    \E input_file_path \in InputFiles :
        LET started == AppNew(input_file_path) IN
        /\ key_input = <<>>
        /\ value_input = <<>>
        /\ pairs = started.val
        /\ edit_popup_focus = None
        /\ exit_popup_focus = None
        /\ available_bindings =
               IF started.ok THEN MainBindings(None, started.val, <<>>, None).val
               ELSE <<>>
        /\ list_ui_state = None
        /\ selected_value_type = "String"
        /\ type_list_ui_state = None
        /\ type_list_open = FALSE
        /\ target_delete_key = None
        /\ target_write_file = input_file_path
        /\ error_fields = <<>>
        /\ traversal_path = <<>>
        /\ current_screen = "Main"
        /\ pc = IF started.ok THEN "await" ELSE "done"
        /\ action = ""
        /\ outcome = IF started.ok THEN "running" ELSE started.err
        /\ events = 0
        /\ popup = "none"
        /\ written = None
        /\ held_view = None

Next ==
    \/ Ignored
    \/ EnterFieldText
    \/ BackspaceFieldText
    \/ ExitCancel
    \/ Quit
    \/ OpenNewPairPopup
    \/ EditingCancel
    \/ EditingToggleField
    \/ EditingSubmit
    \/ EditingArrow
    \/ EditingBoolToggle
    \/ ExitArrow
    \/ ExitCursorSelect
    \/ CursorMove
    \/ CursorSelect
    \/ CursorTraverse
    \/ CursorReturn
    \/ RequestPairDelete
    \/ DeleteYes
    \/ DeleteNo
    \/ Preview
    \/ ExitPreview

Spec == Init /\ [][Next]_vars

\* The sessions over the first two input files (no file, and the two-entry
\* document): the specification the binding lookup is checked under for every
\* key code in every state, which costs a table scan per key and state.
InitKeys == Init /\ pairs \in {DocEmpty, DocScenario}
SpecKeys == InitKeys /\ [][Next]_vars

\* --------------------------------------------- App's methods, called directly
\* A second specification follows App as a library: after App::new, its public
\* methods traverse_down, traverse_up, update_state, save_editing and write are called
\* in any order, with any step and any buffers, and so is the write as
\* handle_input calls it; MaxCalls calls at most.
MaxCalls == 3

\* The steps handed to traverse_down: fields of the documents, a field none of
\* them has ("x" at the root), and array positions.
ApiSteps ==
    {TKString(<<"a">>), TKString(<<"b">>), TKString(<<"0">>), TKString(<<"x">>),
     TKIndex(0), TKIndex(1)}

\* The keys written: those of the rows shown, and a new one.
ApiKeys ==
    {<<"t">>} \cup
    (IF get_visible_pairs.ok
     THEN {get_visible_pairs.val[j].key : j \in 1..Len(get_visible_pairs.val)}
     ELSE {})

\* The <<type, buffer>> pairs written: one or more buffers for each type, and
\* for each row shown its own type with the text of its value.
ApiValues ==
    {<<"String", <<"t">>>>, <<"Number", <<"3">>>>, <<"Number", <<"3", ".", "5">>>>,
     <<"Number", <<"-", "3", ".", "0">>>>, <<"Bool", TrueText>>,
     <<"Null", NullText>>, <<"Object", ObjectText>>, <<"Array", ArrayText>>}
    \cup
    (IF get_visible_pairs.ok
     THEN {<<get_visible_pairs.val[j].value.type,
             ValueText(get_visible_pairs.val[j].value)>> :
               j \in 1..Len(get_visible_pairs.val)}
     ELSE {})

\* A method of App was called and returned: its name and its result are kept.
ApiCall(method, result) ==
    /\ pc' = "await"
    /\ action' = method
    /\ outcome' = result
    /\ events' = events + 1
    /\ popup' = popup

ApiTraverseDown ==
    /\ pc = "await"
    /\ events < MaxCalls
    /\ \E target \in ApiSteps :
          LET d == traverse_down(traversal_path, target)
          IN  /\ traversal_path' = d.path
              /\ list_ui_state' = d.sel
    /\ UNCHANGED <<key_input, value_input, pairs, edit_popup_focus,
                   exit_popup_focus, available_bindings, selected_value_type,
                   type_list_ui_state, type_list_open, target_delete_key,
                   target_write_file, error_fields, current_screen>>
    /\ UNCHANGED <<written, held_view>>
    /\ ApiCall("traverse_down", "running")

ApiTraverseUp ==
    /\ pc = "await"
    /\ events < MaxCalls
    /\ UNCHANGED <<written, held_view>>
    /\ LET u == traverse_up(pairs, traversal_path, list_ui_state)
       IN  /\ traversal_path' = u.path
           /\ list_ui_state' = u.sel
           /\ ApiCall("traverse_up",
                      IF u.ok THEN "running" ELSE "InvalidTraversalPath")
    /\ UNCHANGED <<key_input, value_input, pairs, edit_popup_focus,
                   exit_popup_focus, available_bindings, selected_value_type,
                   type_list_ui_state, type_list_open, target_delete_key,
                   target_write_file, error_fields, current_screen>>

\* App::update_state on its own: the table is replaced unless get_visible_pairs
\* fails, and then nothing is.
ApiUpdateState ==
    /\ pc = "await"
    /\ events < MaxCalls
    /\ LET table == ComputedBindings(current_screen, target_delete_key, pairs,
                        traversal_path, list_ui_state, edit_popup_focus,
                        selected_value_type, exit_popup_focus)
       IN  /\ available_bindings' =
                  IF table.ok THEN table.val ELSE available_bindings
           /\ list_ui_state' = EditingArmSelection(current_screen, list_ui_state)
           /\ UNCHANGED <<written, held_view>>
           /\ ApiCall("update_state",
                      IF table.ok THEN "running" ELSE "InvalidTraversalPath")
    /\ UNCHANGED <<key_input, value_input, pairs, edit_popup_focus,
                   exit_popup_focus, selected_value_type,
                   type_list_ui_state, type_list_open, target_delete_key,
                   target_write_file, error_fields, traversal_path,
                   current_screen>>

\* The caller fills the buffers and the type, then calls App::save_editing,
\* which returns nothing.
ApiSaveEditing ==
    /\ pc = "await"
    /\ events < MaxCalls
    /\ \E k \in ApiKeys, tv \in ApiValues :
          /\ key_input' = k
          /\ selected_value_type' = tv[1]
          /\ value_input' = tv[2]
          /\ pairs' = save_editing(pairs, traversal_path, k, tv[1], tv[2])
    /\ UNCHANGED <<edit_popup_focus, exit_popup_focus, available_bindings,
                   list_ui_state, type_list_ui_state, type_list_open,
                   target_delete_key, target_write_file, error_fields,
                   traversal_path, current_screen>>
    /\ UNCHANGED <<written, held_view>>
    /\ ApiCall("save_editing", "running")

\* The caller of the write in handle_input (the EditingSubmit arm with the
\* focus on Value), on buffers the caller has filled: save_editing, then
\* clear_editing_state and goto_screen(Main), with no branch on the write.
ApiSubmit ==
    /\ pc = "await"
    /\ events < MaxCalls
    /\ \E k \in ApiKeys, tv \in ApiValues :
          pairs' = save_editing(pairs, traversal_path, k, tv[1], tv[2])
    /\ LET g == goto_screen("Main", clear_editing_state, exit_popup_focus)
       IN  /\ SetEditState(g.edit)
           /\ type_list_ui_state' = g.edit[5]
           /\ exit_popup_focus' = g.exit
           /\ current_screen' = "Main"
    /\ UNCHANGED <<available_bindings, list_ui_state, type_list_open,
                   target_delete_key, target_write_file, error_fields,
                   traversal_path>>
    /\ UNCHANGED <<written, held_view>>
    /\ ApiCall("submit", "running")

\* App::write on its own.
ApiWrite ==
    /\ pc = "await"
    /\ events < MaxCalls
    /\ written' = write(pairs, target_write_file)
    /\ UNCHANGED <<app, held_view>>
    /\ ApiCall("write", "running")

NextApi ==
    \/ ApiTraverseDown
    \/ ApiTraverseUp
    \/ ApiUpdateState
    \/ ApiSaveEditing
    \/ ApiSubmit
    \/ ApiWrite

SpecApi == Init /\ [][NextApi]_vars

\* A third specification has a caller that keeps what get_visible_pairs
\* returned while it goes on to move the path and to write into the document.
\* get_visible_pairs works on a clone of self.pairs (which it only borrows):
\* what the call leaves in self.pairs.
get_visible_pairs_in_place(doc, path) ==
    IF VisiblePairs(doc, path).ok THEN VisiblePairs(doc, path).val ELSE doc
get_visible_pairs_leaves(doc, path) == doc

\* App::get_visible_pairs called on its own: the caller owns the Result.
ApiGetVisiblePairs ==
    /\ pc = "await"
    /\ events < MaxCalls
    /\ held_view' = Some(VisiblePairs(pairs, traversal_path))
    /\ pairs' = get_visible_pairs_leaves(pairs, traversal_path)
    /\ UNCHANGED <<key_input, value_input, edit_popup_focus, exit_popup_focus,
                   available_bindings, list_ui_state, selected_value_type,
                   type_list_ui_state, type_list_open, target_delete_key,
                   target_write_file, error_fields, traversal_path,
                   current_screen, written>>
    /\ ApiCall("get_visible_pairs",
               IF VisiblePairs(pairs, traversal_path).ok THEN "running"
               ELSE "InvalidTraversalPath")

NextView ==
    \/ ApiGetVisiblePairs
    \/ ApiTraverseDown
    \/ ApiTraverseUp
    \/ ApiSaveEditing

SpecView == Init /\ [][NextView]_vars

\* A further specification has a caller of App::validate_fields, which no code
\* of main.rs calls: it goes to a screen with goto_screen, fills the type and
\* the value buffer, and validates.
AppScreens == {"Main", "Editing", "Exiting", "Preview"}

\* The value buffers validated: empty, a letter, numbers, a number followed
\* by a letter, a number after a blank, the booleans, and the seeds.
ValidateBuffers ==
    {<<>>, <<"t">>, <<"3">>, <<"3", ".", "5">>, <<"-", "3", ".", "0">>,
     <<"3", "t">>, <<" ", "3">>, TrueText, FalseText, NullText, ObjectText,
     ArrayText}

ApiGotoScreen ==
    /\ pc = "await"
    /\ events < MaxCalls
    /\ \E new_screen \in AppScreens :
          LET g == goto_screen(new_screen, EditState, exit_popup_focus)
          IN  /\ SetEditState(g.edit)
              /\ type_list_ui_state' = g.edit[5]
              /\ exit_popup_focus' = g.exit
              /\ current_screen' = new_screen
    /\ UNCHANGED <<pairs, available_bindings, list_ui_state, type_list_open,
                   target_delete_key, target_write_file, error_fields,
                   traversal_path>>
    /\ UNCHANGED <<written, held_view>>
    /\ ApiCall("goto_screen", "running")

\* The caller picks the type with select_value_type, assigns value_input, and
\* calls App::validate_fields, which returns whether error_fields is empty.
ApiValidateFields ==
    /\ pc = "await"
    /\ events < MaxCalls
    /\ \E type \in {all_value_types[j] : j \in 1..Len(all_value_types)},
          input \in ValidateBuffers :
          /\ selected_value_type' = type
          /\ value_input' = input
          /\ error_fields' = validate_fields(current_screen, type, input,
                                             target_write_file)
    /\ UNCHANGED <<key_input, pairs, edit_popup_focus, exit_popup_focus,
                   available_bindings, list_ui_state, type_list_ui_state,
                   type_list_open, target_delete_key, target_write_file,
                   traversal_path, current_screen>>
    /\ UNCHANGED <<written, held_view>>
    /\ ApiCall("validate_fields",
               IF error_fields' = <<>> THEN "true" ELSE "false")

NextValidate ==
    \/ ApiGotoScreen
    \/ ApiValidateFields

SpecValidate == Init /\ [][NextValidate]_vars

\* ================================================================ claims
\* The step just taken is handle_input's arm for action a.  Moves and ignored
\* keys leave the label empty, so a labelled step is always a changing step.
Handles(a) == action' = a

\* 0-based position of key k in map m, for a key that is present.
PositionOf(m, k) == (CHOOSE j \in 1..Len(m) : m[j].key = k) - 1

\* Between two versions of an object: keys present in both keep their relative
\* order, a key only in the new version comes after every key present in
\* both, and the same holds inside every field that is an Object in both.
RECURSIVE OrderKept(_, _)
OrderKept(old, new) ==
    /\ \A i, j \in 1..Len(old) :
          (i < j /\ HasKey(new, old[i].key) /\ HasKey(new, old[j].key))
              => PositionOf(new, old[i].key) < PositionOf(new, old[j].key)
    /\ \A i, j \in 1..Len(new) :
          (HasKey(old, new[i].key) /\ ~HasKey(old, new[j].key)) => i < j
    /\ \A i \in 1..Len(old) :
          (/\ old[i].value.type = "Object"
           /\ HasKey(new, old[i].key)
           /\ new[PositionOf(new, old[i].key) + 1].value.type = "Object")
              => OrderKept(old[i].value.o,
                           new[PositionOf(new, old[i].key) + 1].value.o)

\* C1: whatever the session does (submits, confirmed deletions), each step
\* keeps the document's keys in first-insertion order: an updated key keeps
\* its position, a new key goes last, a removal does not reorder the rest.
KeyOrderIsInsertionOrder == [][OrderKept(pairs, pairs')]_vars

\* C1 witness: the existing first key "a" was resubmitted (its value is now
\* the String of the buffer) and is still first, before "b".
KeyOrderWitness ==
    /\ action = "EditingSubmit"
    /\ Keys(pairs) = <<<<"a">>, <<"b">>>>
    /\ pairs[1].value.type = "String"

Flags(fields, f) == \E j \in 1..Len(fields) : fields[j] = f

\* C2: a submit from the Value field, type list closed, with type Number and
\* a buffer that is no number, or type Bool and a buffer that is no boolean,
\* is rejected: Value is flagged in error_fields, the screen stays Editing and
\* the document is unchanged.
InvalidValueSubmitRejected ==
    [][(/\ Handles("EditingSubmit")
        /\ current_screen = "Editing"
        /\ edit_popup_focus = Some("Value")
        /\ ~type_list_open
        /\ \/ selected_value_type = "Number" /\ ~IsSome(ParseF64(value_input))
           \/ selected_value_type = "Bool" /\ ~IsSome(ParseBool(value_input)))
       => (/\ Flags(error_fields', "Value")
           /\ current_screen' = "Editing"
           /\ pairs' = pairs)]_vars

\* C3: in Exiting, ExitCursorSelect with the focus not on the discard button
\* while the output file is none or blank does not end the session: the
\* screen stays Exiting and OutputFile is flagged in error_fields.
BlankOutputFileBlocksSave ==
    [][(/\ Handles("ExitCursorSelect")
        /\ current_screen = "Exiting"
        /\ IsSome(exit_popup_focus)
        /\ exit_popup_focus # Some("Negative")
        /\ IF IsSome(target_write_file)
           THEN TrimIsEmpty(Unwrap(target_write_file)) ELSE TRUE)
       => (/\ pc' = "await"
           /\ current_screen' = "Exiting"
           /\ Flags(error_fields', "OutputFile"))]_vars

\* C4: RequestPairDelete with the cursor on index i makes the key of row i of
\* the visible projection the pending deletion, whatever the path, and does
\* not change the document.
DeleteTargetIsVisibleRow ==
    [][(/\ Handles("RequestPairDelete")
        /\ IsSome(list_ui_state)
        /\ get_visible_pairs.ok
        /\ Unwrap(list_ui_state) < Len(get_visible_pairs.val))
       => (/\ target_delete_key' =
                 Some(get_visible_pairs.val[Unwrap(list_ui_state) + 1].key)
           /\ pairs' = pairs)]_vars

\* The rows view with entry k removed from the container that path leads to
\* (as the projection reads path), every other entry and position kept.
RECURSIVE RemovedFromBrowsed(_, _, _)
RemovedFromBrowsed(view, path, k) ==
    IF path = <<>> THEN SelectSeq(view, LAMBDA e : e.key # k)
    ELSE LET name == TraversalKeyToString(Head(path))
             isIndex == Head(path).kind = "Index"
             holds == IF HasKey(view, name)
                      THEN view[PositionOf(view, name) + 1].value.type ELSE "none"
         IN  IF isIndex /\ holds # "Array"
             THEN RemovedFromBrowsed(view, Tail(path), k)
             ELSE [j \in 1..Len(view) |->
                     IF view[j].key # name THEN view[j]
                     ELSE IF ~isIndex /\ holds = "Object"
                     THEN Entry(name, JObject(RemovedFromBrowsed(
                              view[j].value.o, Tail(path), k)))
                     ELSE IF isIndex
                     THEN LET rows == RemovedFromBrowsed(
                                  ArrayRows(view[j].value.a), Tail(path), k)
                          IN  Entry(name,
                                    JArray([r \in 1..Len(rows) |-> rows[r].value]))
                     ELSE view[j]]

\* C5: DeleteYes with pending deletion k removes exactly the entry k from the
\* container being browsed, leaves every other entry of the document and its
\* position unchanged, and clears the pending deletion.
DeleteYesRemovesFromBrowsed ==
    [][(/\ Handles("DeleteYes")
        /\ IsSome(target_delete_key)
        /\ get_visible_pairs.ok)
       => (/\ pairs' = RemovedFromBrowsed(pairs, traversal_path,
                                          Unwrap(target_delete_key))
           /\ target_delete_key' = None)]_vars

\* C6: DeleteNo clears the pending deletion and leaves the document, the path
\* and the edit buffers unchanged.
DeleteNoOnlyClearsTarget ==
    [][Handles("DeleteNo")
       => (/\ target_delete_key' = None
           /\ pairs' = pairs
           /\ traversal_path' = traversal_path
           /\ key_input' = key_input
           /\ value_input' = value_input
           /\ selected_value_type' = selected_value_type)]_vars

\* C6 witness: a deletion was requested on a document with entries and then
\* denied; the document still has its two entries.
DeleteNoWitness ==
    /\ action = "DeleteNo"
    /\ target_delete_key = None
    /\ Len(pairs) = 2

\* The value a submit is to store for a type and a buffer valid for it.
ExpectedValue(type, input) ==
    CASE type = "Bool" -> JBool(input = TrueText)
      [] type = "Number" -> JNumber(Unwrap(ParseF64(input)))
      [] type = "String" -> JString(input)
      [] type = "Null" -> JNull
      [] type = "Object" -> JObject(<<>>)
      [] type = "Array" -> JArray(<<>>)

\* Two versions of a view with the same keys in the same order and the same
\* values, except perhaps under key k.
SameExceptUnder(old, new, k) ==
    /\ Len(new) = Len(old)
    /\ \A j \in 1..Len(old) :
          /\ new[j].key = old[j].key
          /\ old[j].key # k => new[j].value = old[j].value

\* A submit from the Value field of the new-pair popup, type list closed, of a
\* key the browsed container does not hold and of a buffer valid for the
\* selected type.
NewPairSubmit ==
    /\ Handles("EditingSubmit")
    /\ current_screen = "Editing"
    /\ popup = "new"
    /\ edit_popup_focus = Some("Value")
    /\ ~type_list_open
    /\ get_visible_pairs.ok
    /\ ~HasKey(get_visible_pairs.val, key_input)
    /\ validate_fields("Editing", selected_value_type, value_input,
                       target_write_file) = <<>>

\* The step added key_input with the expected value at the end of the browsed
\* container, and changed nothing else on the way down to it.
NewPairAdded ==
    /\ VisiblePairs(pairs', traversal_path).ok
    /\ VisiblePairs(pairs', traversal_path).val =
          Append(get_visible_pairs.val,
                 Entry(key_input, ExpectedValue(selected_value_type, value_input)))
    /\ \A d \in 1..Len(traversal_path) :
          SameExceptUnder(VisiblePairs(pairs, SubSeq(traversal_path, 1, d - 1)).val,
                          VisiblePairs(pairs', SubSeq(traversal_path, 1, d - 1)).val,
                          TraversalKeyToString(traversal_path[d]))

\* The path leads to an Object: it is empty or its last step is a Name.
BrowsingObject ==
    traversal_path = <<>> \/ traversal_path[Len(traversal_path)].kind = "String"

\* Every step of the path is a Name.
NamesOnly == \A d \in 1..Len(traversal_path) : traversal_path[d].kind = "String"

\* C7 as stated: submitting a new pair (key not in the browsed object, valid
\* buffer) adds exactly one entry key -> value at the end of the browsed
\* object, whatever object is browsed; existing entries keep value and place.
NewPairAppendedToBrowsedObject ==
    [][(NewPairSubmit /\ BrowsingObject) => NewPairAdded]_vars

\* C7 amended: submitting a new pair (key not in the browsed object, valid
\* buffer) adds exactly one entry key -> value at the end of the browsed
\* object when the path to it holds Name steps only; Bool "true" gives true,
\* Null / Object / Array give null / {} / []; existing entries keep value and
\* place.
NewPairAppendedUnderNames ==
    [][(NewPairSubmit /\ NamesOnly) => NewPairAdded]_vars

\* C7 witness: a new pair of type Bool with buffer "true" was submitted at
\* the root; the last entry of the document is that pair.
NewPairWitness ==
    /\ action = "EditingSubmit"
    /\ current_screen = "Main"
    /\ traversal_path = <<>>
    /\ pairs # <<>>
    /\ pairs[Len(pairs)].value = JBool(TRUE)

\* C8: after traverse-in on the selected row with key k holding an Object o,
\* the path is the previous path with Name(k) appended, the cursor is on index
\* 0, and get_visible_pairs returns exactly o's fields in o's order.
TraverseInShowsObject ==
    [][(/\ Handles("CursorTraverse")
        /\ get_visible_pairs.ok
        /\ IsSome(list_ui_state)
        /\ Unwrap(list_ui_state) < Len(get_visible_pairs.val)
        /\ get_visible_pairs.val[Unwrap(list_ui_state) + 1].value.type = "Object")
       => LET row == get_visible_pairs.val[Unwrap(list_ui_state) + 1]
              after == VisiblePairs(pairs', traversal_path')
          IN  /\ traversal_path' = Append(traversal_path, TKString(row.key))
              /\ list_ui_state' = Some(0)
              /\ after.ok
              /\ Len(after.val) = Len(row.value.o)
              /\ \A j \in 1..Len(after.val) : after.val[j] = row.value.o[j]]_vars

\* C8 witness: the session traversed into "b" of {"a": 1, "b": {"c": true}}.
TraverseInWitness ==
    /\ action = "CursorTraverse"
    /\ traversal_path = <<TKString(<<"b">>)>>
    /\ list_ui_state = Some(0)
    /\ get_visible_pairs.val = <<Entry(<<"c">>, JBool(TRUE))>>

\* The cursor that re-selects the row with key k of a view, none without one.
Reselected(view, k) ==
    IF \E j \in 1..Len(view) : view[j].key = k
    THEN Some(PositionOf(view, k)) ELSE None

RootProjectionIsDocument ==
    traversal_path = <<>>
        => (/\ get_visible_pairs.ok
            /\ Len(get_visible_pairs.val) = Len(pairs)
            /\ \A j \in 1..Len(pairs) :
                  /\ get_visible_pairs.val[j].key = pairs[j].key
                  /\ get_visible_pairs.val[j].value = pairs[j].value)

\* C10 witness: a session back at the root of a document that has gained a
\* third top-level entry.
RootProjectionWitness ==
    /\ traversal_path = <<>>
    /\ action = "EditingSubmit"
    /\ Len(pairs) = 3
    /\ Len(get_visible_pairs.val) = 3

\* C11: for every path that resolves and every row (k, v) of the projection at
\* that path, writing k -> v back at the same path leaves the whole document,
\* contents and iteration order, unchanged: both the write of v itself and
\* save_editing with the row's type and the text of v as buffer, whenever that
\* buffer gives v back.
WriteBackLeavesDocument ==
    get_visible_pairs.ok =>
        \A j \in 1..Len(get_visible_pairs.val) :
            LET k == get_visible_pairs.val[j].key
                v == get_visible_pairs.val[j].value
            IN  /\ traverse_and_update(pairs, traversal_path, k, v) = pairs
                /\ NewValue(v.type, ValueText(v)) = v
                      => save_editing(pairs, traversal_path, k, v.type,
                                      ValueText(v)) = pairs

\* C11 witness: browsing "b" of {"a": 1, "b": {"c": true}}, its row "c" was
\* written back as Bool "true" and the document is what it was.
WriteBackWitness ==
    /\ action = "save_editing"
    /\ traversal_path = <<TKString(<<"b">>)>>
    /\ key_input = <<"c">>
    /\ selected_value_type = "Bool"
    /\ value_input = TrueText
    /\ pairs = DocScenario

\* C12 as stated: the selection cursor is none after every confirmed deletion
\* (DeleteYes) and after every change of screen, whatever it was before.
CursorNoneAfterDeleteOrScreenChange ==
    [][(Handles("DeleteYes") \/ current_screen' # current_screen)
       => list_ui_state' = None]_vars

\* C12 amended: the selection cursor is none after every change of screen to
\* Editing (and for as long as the screen is Editing); a confirmed deletion
\* leaves it on the same index, moved by the next draw onto the last top-level
\* entry when it lies beyond it (none when the document is empty); a change to
\* any other screen leaves it as it was.
CursorNoneOnEditingOnly ==
    [][/\ current_screen' = "Editing" => list_ui_state' = None
       /\ Handles("DeleteYes")
             => list_ui_state' = RenderList(list_ui_state, Len(pairs'))
       /\ (current_screen' # current_screen /\ current_screen' # "Editing")
             => list_ui_state' = list_ui_state]_vars

\* C12 witness: a deletion was confirmed with the cursor on a row, one entry
\* is left and the cursor is still set.
CursorKeptWitness ==
    /\ action = "DeleteYes"
    /\ Len(pairs) = 1
    /\ IsSome(list_ui_state)

\* The Static bindings of a table in their order, and its TextEntry bindings.
Statics(table) == SelectSeq(table, LAMBDA b : b[1] # "TextEntry")
Wildcards(table) == SelectSeq(table, LAMBDA b : b[1] = "TextEntry")

\* A table of Static bindings with the wildcard binding (if the table has
\* one) standing after p of them.
WildcardAt(statics, wild, p) ==
    IF wild = <<>> THEN statics ELSE InsertAt(statics, p, wild[1])

\* What a key code is to resolve to, given the Static bindings in their order
\* and the wildcard bindings: the action of the first exact binding with that
\* code, else the wildcard's action for a character, else nothing.
ExpectedAction(statics, wild, code) ==
    LET exact == {j \in 1..Len(statics) : statics[j][1] = code}
    IN  IF exact # {}
        THEN statics[CHOOSE j \in exact : \A k \in exact : j <= k][2]
        ELSE IF code \in Chars /\ wild # <<>> THEN wild[1][2]
        ELSE ""

\* Every field of App but the legal-action table, which the loop of run_app
\* recomputes after every key, resolved or not.
SessionFields ==
    <<key_input, value_input, pairs, edit_popup_focus, exit_popup_focus,
      list_ui_state, selected_value_type, type_list_ui_state, type_list_open,
      target_delete_key, target_write_file, error_fields, traversal_path,
      current_screen>>

\* C13: for every key code and every legal-action table the session computes,
\* with the wildcard binding standing first, last or where update_state put it:
\* an exact binding with the key's code wins and the first such binding gives
\* the action; the wildcard's action is used only when no exact binding matches
\* and the key is a character; otherwise the key resolves to no action, and a
\* key that resolves to no action changes no field of the session and does
\* not end it.
ExactBindingFirst ==
    LET statics == Statics(available_bindings)
        wild == Wildcards(available_bindings)
        first == WildcardAt(statics, wild, 0)
        last == WildcardAt(statics, wild, Len(statics))
    IN  /\ \A code \in KeyCodes :
              LET expected == ExpectedAction(statics, wild, code)
              IN  /\ ResolveAction(available_bindings, code) = expected
                  /\ ResolveAction(first, code) = expected
                  /\ ResolveAction(last, code) = expected
        /\ ~ENABLED (Ignored /\ (SessionFields' # SessionFields \/ pc' # "await"))

\* C13 witness: the Value field of the popup with type Bool, where the table
\* holds the wildcard before the exact binding of 't'; 't' was pressed and
\* toggled the buffer to "true" instead of being typed into it.
ExactBindingWitness ==
    /\ action = "EditingBoolToggle"
    /\ value_input = TrueText
    /\ \E w, e \in 1..Len(available_bindings) :
          /\ w < e
          /\ available_bindings[w][1] = "TextEntry"
          /\ available_bindings[e] = B("t", "EditingBoolToggle")

\* C14: a key event whose kind is not Press (Release or Repeat) is ignored:
\* a step handle_input takes on such an event (the arm of the action the
\* event's key resolves to, when events of that kind are looked up at all)
\* continues the session and changes none of its fields.
OnlyPressActedOn ==
    [][\A kind \in KeyEventKinds \ {"Press"} :
          (/\ Listened(kind)
           /\ action' # ""
           /\ \E code \in KeyCodes :
                 /\ Offered(code)
                 /\ ResolveAction(available_bindings, code) = action')
          => (pc' = "await" /\ SessionFields' = SessionFields)]_vars

\* The top-level value of the file at a path, none when there is no readable
\* file or its text is not JSON.
TopLevel(path) ==
    IF IsSome(read_to_string(path)) THEN Unwrap(read_to_string(path)).from_str
    ELSE None

\* C15: App::new yields an empty document only when no input path is given.
\* With a path it yields InputFileNotFound when the file cannot be read,
\* InvalidInputJson when the content is not valid JSON or its top-level value
\* is not an object, and otherwise a session whose document has the file's
\* top-level fields (the same keys in the same order); on either error no
\* session is created.  Stated of the states before any counted key press,
\* where target_write_file still is the path given.
StartupByInputFile ==
    events = 0 =>
        IF ~IsSome(target_write_file)
        THEN pc = "await" /\ pairs = <<>>
        ELSE LET path == Unwrap(target_write_file) IN
             IF ~IsSome(read_to_string(path))
             THEN pc = "done" /\ outcome = "InputFileNotFound"
             ELSE IF ~IsSome(TopLevel(path)) \/ Unwrap(TopLevel(path)).type # "Object"
             THEN pc = "done" /\ outcome = "InvalidInputJson"
             ELSE /\ pc = "await"
                  /\ outcome = "running"
                  /\ Keys(pairs) = Keys(Unwrap(TopLevel(path)).o)

\* Step number p (1-based) of the path is a Name that does not lead to an
\* Object in the projection the steps before it give: its name is missing
\* there, or the value under it is no Object.
NameStepFailsAt(p) ==
    LET before == VisiblePairs(pairs, SubSeq(traversal_path, 1, p - 1))
        s == traversal_path[p].s
    IN  /\ traversal_path[p].kind = "String"
        /\ before.ok
        /\ ~\E j \in 1..Len(before.val) :
               before.val[j].key = s /\ before.val[j].value.type = "Object"

\* C16: when a Name(s) step of the path does not lead to an Object,
\* get_visible_pairs fails with InvalidTraversalPath carrying that step and
\* its position in the path (counted from 0), the position of the first step
\* that fails; it fails in no other case; and a refresh in which it fails
\* leaves the document and the path (and the legal-action table) unchanged.
InvalidPathNamesFirstFailingStep ==
    /\ \A p \in 1..Len(traversal_path) :
          NameStepFailsAt(p) =>
             /\ ~get_visible_pairs.ok
             /\ get_visible_pairs.err =
                   Some([key |-> traversal_path[p], idx |-> p - 1])
    /\ ~get_visible_pairs.ok => \E p \in 1..Len(traversal_path) : NameStepFailsAt(p)
    /\ ~ENABLED (/\ ApiUpdateState
                 /\ outcome' = "InvalidTraversalPath"
                 /\ \/ pairs' # pairs
                    \/ traversal_path' # traversal_path
                    \/ available_bindings' # available_bindings)

\* C16 witness: browsing [Name("b"), Name("x")] of {"a": 1, "b": {"c": true}},
\* a refresh failed: "b" leads to an object, "x" is missing from it, so the
\* error carries Name("x") and position 1.
InvalidPathWitness ==
    /\ action = "update_state"
    /\ outcome = "InvalidTraversalPath"
    /\ pairs = DocScenario
    /\ traversal_path = <<TKString(<<"b">>), TKString(<<"x">>)>>
    /\ get_visible_pairs.err = Some([key |-> TKString(<<"x">>), idx |-> 1])

\* C17: save_editing with a path that contains an Index step, or a Name step
\* that does not resolve to an Object, leaves the whole document unchanged and
\* reports nothing: it returns no error, flags no field, and its caller goes
\* on as after a successful write (buffers cleared, screen Main, session
\* running).
WriteWithoutTargetDropped ==
    [][((Handles("save_editing") \/ Handles("submit"))
        /\ (~NamesOnly \/ ~get_visible_pairs.ok))
       => (/\ pairs' = pairs
           /\ outcome' = "running"
           /\ pc' = "await"
           /\ error_fields' = <<>>
           /\ Handles("submit") =>
                 /\ current_screen' = "Main"
                 /\ key_input' = <<>>
                 /\ value_input' = <<>>
                 /\ edit_popup_focus' = None
                 /\ selected_value_type' = "String")]_vars

\* C17 witness: browsing the rows of array "0" (path [Index(0)]), a write of
\* the new key "t" was made and the document is what it was.
WriteDroppedWitness ==
    /\ action = "save_editing"
    /\ traversal_path = <<TKIndex(0)>>
    /\ key_input = <<"t">>
    /\ pairs = DocArrays

\* C18: ExitCursorSelect on the Exiting screen ends the session with 'save'
\* when the focus is on the save button and with 'discard' when it is on the
\* discard button; a discard exit never writes the document; and a session
\* that ended with 'save' or 'discard' ended by ExitCursorSelect on the Exiting
\* screen (every other end is an error or a panic).
ExitSelectEndsSession ==
    /\ (action = "ExitCursorSelect" /\ exit_popup_focus = Some("Positive"))
          => (pc = "done" /\ outcome = "save")
    /\ (action = "ExitCursorSelect" /\ exit_popup_focus = Some("Negative"))
          => (pc = "done" /\ outcome = "discard")
    /\ outcome = "discard" => written = None
    /\ IsSome(written) => outcome = "save"
    /\ (pc = "done" /\ events > 0 /\ action # "ExitCursorSelect")
          => outcome \notin {"save", "discard"}
    /\ outcome \in {"save", "discard"}
          => (pc = "done" /\ action = "ExitCursorSelect" /\ current_screen = "Exiting")

\* C18 witness: a pair was added to the two-entry document of file "f", then
\* the session was left on the discard button: nothing was written.
DiscardExitWitness ==
    /\ outcome = "discard"
    /\ exit_popup_focus = Some("Negative")
    /\ target_write_file = Some(<<"f">>)
    /\ Len(pairs) = 3
    /\ written = None

\* The literal lit is the one a Number n (in tenths) is to be written as: with
\* a non-zero fraction a floating literal (digits, a point, digits, after an
\* optional sign); whole and negative a signed integer literal; whole and not
\* negative an unsigned integer literal; and in each case it denotes n.
LiteralFits(n, lit) ==
    LET unsigned == IF lit # <<>> /\ lit[1] = "-" THEN Tail(lit) ELSE lit
        points == {j \in 1..Len(unsigned) : unsigned[j] = "."}
    IN  /\ ParseF64(lit) = Some(n)
        /\ IF n % NumScale # 0
           THEN /\ Cardinality(points) = 1
                /\ \A j \in points : 1 < j /\ j < Len(unsigned)
                /\ \A j \in 1..Len(unsigned) : j \in points \/ IsDigit(unsigned[j])
           ELSE /\ unsigned # <<>>
                /\ AllDigits(unsigned)
                /\ (lit[1] = "-") <=> (n < 0)

\* C19: the literal a Number is serialized as is decided by its value only: a
\* non-zero fraction gives a floating literal, a whole negative number a
\* signed integer literal, a whole non-negative number an unsigned integer
\* literal without a decimal point; -3 and -3.0 both give -3, 3 and 3.0 both
\* give 3, whether they come from the file or from the edit buffer.
NumberLiteralDecidedByValue ==
    /\ \A j \in 1..Len(pairs) :
          pairs[j].value.type = "Number"
             => LiteralFits(pairs[j].value.n, SerializeValue(pairs[j].value))
    /\ get_visible_pairs.ok =>
          \A j \in 1..Len(get_visible_pairs.val) :
             get_visible_pairs.val[j].value.type = "Number"
                => LiteralFits(get_visible_pairs.val[j].value.n,
                               SerializeValue(get_visible_pairs.val[j].value))
    /\ SerializeValue(from_serde(SNegInt(0 - 3))) = <<"-", "3">>
    /\ SerializeValue(from_serde(SFloat(0 - 3 * NumScale))) = <<"-", "3">>
    /\ SerializeValue(from_serde(SPosInt(3))) = <<"3">>
    /\ SerializeValue(from_serde(SFloat(3 * NumScale))) = <<"3">>
    /\ SerializeValue(NewValue("Number", <<"-", "3">>)) = <<"-", "3">>
    /\ SerializeValue(NewValue("Number", <<"-", "3", ".", "0">>)) = <<"-", "3">>
    /\ SerializeValue(NewValue("Number", <<"3">>)) = <<"3">>
    /\ SerializeValue(NewValue("Number", <<"3", ".", "0">>)) = <<"3">>
    /\ SerializeValue(NewValue("Number", <<"3", ".", "5">>)) = <<"3", ".", "5">>

\* C19 witness: the Number written from the buffer "-3.0" under key "t" into
\* an empty document was saved to the file as {"t":-3}.
NumberLiteralWitness ==
    /\ action = "write"
    /\ pairs = <<Entry(<<"t">>, JNumber(0 - 3 * NumScale))>>
    /\ IsSome(written)
    /\ Unwrap(written).contents = <<"{", "\"", "t", "\"", ":", "-", "3", "}">>

\* C20: whenever an input event is awaited on a screen other than Editing, the
\* edit buffers are cleared: key_input and value_input are empty, the selected
\* type is String, the edit focus is none and the type list is closed; and
\* the new-pair popup has just opened with empty key and value buffers.
EditBuffersClearedOffEditing ==
    /\ (pc = "await" /\ current_screen # "Editing")
          => /\ key_input = <<>>
             /\ value_input = <<>>
             /\ selected_value_type = "String"
             /\ edit_popup_focus = None
             /\ ~type_list_open
    /\ (action = "OpenNewPairPopup" /\ pc = "await")
          => /\ current_screen = "Editing"
             /\ popup = "new"
             /\ key_input = <<>>
             /\ value_input = <<>>

\* C20 witness: a pair whose key was typed into the popup has been submitted
\* into an empty document, and the session is back on Main awaiting a key.
EditBuffersClearedWitness ==
    /\ action = "EditingSubmit"
    /\ pc = "await"
    /\ current_screen = "Main"
    /\ Len(pairs) = 1
    /\ pairs[1].key # <<>>
    /\ key_input = <<>>

\* C21: CursorSelect with the cursor on index i, a row of the visible
\* projection, opens the Editing screen with key_input the key of row i of
\* the projection and value_input the text of that row's value (the string
\* itself, a number or boolean as text, "null", "{}", "[]" for Null, Object,
\* Array), whatever the traversal path.
SelectOpensVisibleRow ==
    [][(/\ Handles("CursorSelect")
        /\ IsSome(list_ui_state)
        /\ get_visible_pairs.ok
        /\ Unwrap(list_ui_state) < Len(get_visible_pairs.val))
       => (LET row == get_visible_pairs.val[Unwrap(list_ui_state) + 1]
           IN  /\ pc' = "await"
               /\ current_screen' = "Editing"
               /\ key_input' = row.key
               /\ value_input' = ValueText(row.value))]_vars

\* C22: after CursorSelect opens the row under the cursor, selected_value_type
\* is the JSON type of that row's value; and a submit that follows at once,
\* with no further input, leaves under the row's key a value of the type the
\* row had.
SelectSeedsSelectedType ==
    [][/\ (/\ Handles("CursorSelect")
           /\ IsSome(list_ui_state)
           /\ get_visible_pairs.ok
           /\ Unwrap(list_ui_state) < Len(get_visible_pairs.val))
          => selected_value_type' =
                 get_visible_pairs.val[Unwrap(list_ui_state) + 1].value.type
       /\ (/\ action = "CursorSelect"
           /\ current_screen = "Editing"
           /\ Handles("EditingSubmit")
           /\ traversal_path = <<>>
           /\ HasKey(pairs, key_input))
          => (/\ HasKey(pairs', key_input)
              /\ Unwrap(Get(pairs', key_input)).type
                     = Unwrap(Get(pairs, key_input)).type)]_vars

TableIsCurrent ==
    pc = "await" =>
        LET table == ComputedBindings(current_screen, target_delete_key, pairs,
                         traversal_path, list_ui_state, edit_popup_focus,
                         selected_value_type, exit_popup_focus)
        IN  table.ok => available_bindings = table.val

\* Action a is in the legal-action table the next key is resolved against.
Legal(a) == \E j \in 1..Len(available_bindings) : available_bindings[j][2] = a

\* C25: whenever a key is awaited, CursorReturn is in the legal-action table
\* exactly when the screen is Main, no deletion is pending and the traversal
\* path is not empty; at the root it is never legal.
ReturnLegalOffRootOnly ==
    pc = "await" =>
        (Legal("CursorReturn")
            <=> (/\ current_screen = "Main"
                 /\ target_delete_key = None
                 /\ traversal_path # <<>>))

\* C26: whenever a key is awaited, CursorTraverse is in the legal-action table
\* exactly when the screen is Main, no deletion is pending, a row is selected
\* and the value of that row in the visible projection is an Object or an
\* Array.
TraverseLegalOnContainerRow ==
    pc = "await" =>
        (Legal("CursorTraverse")
            <=> (/\ current_screen = "Main"
                 /\ target_delete_key = None
                 /\ IsSome(list_ui_state)
                 /\ get_visible_pairs.ok
                 /\ Unwrap(list_ui_state) < Len(get_visible_pairs.val)
                 /\ IsContainer(
                        get_visible_pairs.val[Unwrap(list_ui_state) + 1].value)))

\* C27: with a path of Name steps that each lead to an Object, save_editing
\* inserts or updates key_input -> value in the object get_visible_pairs shows
\* for that path (a new key goes last, a present key keeps its place); every
\* other entry of that object, and every entry outside it on the way down,
\* keeps its value and position.
SaveEditingWritesBrowsedObject ==
    [][(Handles("save_editing") /\ NamesOnly /\ get_visible_pairs.ok)
       => (LET old == get_visible_pairs.val
               after == VisiblePairs(pairs', traversal_path)
               v == NewValue(selected_value_type', value_input')
           IN  /\ traversal_path' = traversal_path
               /\ after.ok
               /\ IF HasKey(old, key_input')
                  THEN /\ SameExceptUnder(old, after.val, key_input')
                       /\ Get(after.val, key_input') = Some(v)
                  ELSE after.val = Append(old, Entry(key_input', v))
               /\ \A d \in 1..Len(traversal_path) :
                     SameExceptUnder(
                         VisiblePairs(pairs, SubSeq(traversal_path, 1, d - 1)).val,
                         VisiblePairs(pairs', SubSeq(traversal_path, 1, d - 1)).val,
                         TraversalKeyToString(traversal_path[d])))]_vars

\* C27 witness: browsing "b" of {"a": 1, "b": {"c": true}}, a new key "t" was
\* written: "b" now shows "c" and "t", and the root still holds "a" and "b".
SaveEditingWitness ==
    /\ action = "save_editing"
    /\ traversal_path = <<TKString(<<"b">>)>>
    /\ get_visible_pairs.ok
    /\ Keys(get_visible_pairs.val) = << <<"c">>, <<"t">> >>
    /\ Keys(pairs) = << <<"a">>, <<"b">> >>
    /\ pairs[1].value = JNumber(NumScale)

\* C28: EditingCancel with the type list closed returns to Main with the edit
\* buffers cleared (empty key and value buffers, type String, no focus) and
\* the document and traversal path unchanged, whatever was typed; with the
\* type list open it only closes the type list: the screen stays Editing and
\* the buffers, type, focus, document and path stay as they were.
CancelClearsWithoutWriting ==
    [][Handles("EditingCancel")
       => (/\ pc' = "await"
           /\ pairs' = pairs
           /\ traversal_path' = traversal_path
           /\ written' = written
           /\ ~type_list_open'
           /\ IF type_list_open
              THEN /\ current_screen' = "Editing"
                   /\ key_input' = key_input
                   /\ value_input' = value_input
                   /\ selected_value_type' = selected_value_type
                   /\ edit_popup_focus' = edit_popup_focus
              ELSE /\ current_screen' = "Main"
                   /\ key_input' = <<>>
                   /\ value_input' = <<>>
                   /\ selected_value_type' = "String"
                   /\ edit_popup_focus' = None)]_vars

\* C28 witness: a key was typed into the popup, the type list was opened and
\* EditingCancel closed it: the popup is still shown with the key typed.
CancelClosesTypeListWitness ==
    /\ action = "EditingCancel"
    /\ pc = "await"
    /\ current_screen = "Editing"
    /\ ~type_list_open
    /\ key_input # <<>>

\* C29: EditingSubmit with the type list open and its cursor on index j makes
\* the j-th of String, Number, Bool, Object, Array, Null the selected type,
\* puts that type's seed ("", "", "false", "{}", "[]", "null") in
\* value_input, closes the type list, and changes neither key_input nor the
\* document; the popup stays open.
TypeChoiceSeedsValue ==
    [][(/\ Handles("EditingSubmit")
        /\ type_list_open
        /\ IsSome(type_list_ui_state))
       => (LET j == Unwrap(type_list_ui_state)
               types == <<"String", "Number", "Bool", "Object", "Array", "Null">>
               seeds == << <<>>, <<>>, <<"f", "a", "l", "s", "e">>, <<"{", "}">>,
                           <<"[", "]">>, <<"n", "u", "l", "l">> >>
           IN  /\ j < 6
               /\ pc' = "await"
               /\ selected_value_type' = types[j + 1]
               /\ value_input' = seeds[j + 1]
               /\ ~type_list_open'
               /\ current_screen' = "Editing"
               /\ key_input' = key_input
               /\ pairs' = pairs)]_vars

\* C29 witness: with a key typed, the fifth type of the list, Array, was
\* chosen: the value buffer holds "[]" and the key is still there.
TypeChoiceWitness ==
    /\ action = "EditingSubmit"
    /\ pc = "await"
    /\ current_screen = "Editing"
    /\ ~type_list_open
    /\ type_list_ui_state = Some(4)
    /\ selected_value_type = "Array"
    /\ value_input = <<"[", "]">>
    /\ key_input # <<>>

\* C30: whenever EditingBoolToggle is taken (it is legal on the Editing screen
\* with the focus on Value and the selected type Bool), it succeeds and
\* value_input becomes the text of the negation of the boolean parsed from
\* the old value_input ("true" gives "false" and the reverse); key_input, the
\* selected type and the document are unchanged.
BoolToggleFlipsValue ==
    [][Handles("EditingBoolToggle")
       => (/\ current_screen = "Editing"
           /\ edit_popup_focus = Some("Value")
           /\ selected_value_type = "Bool"
           /\ pc' = "await"
           /\ value_input \in {TrueText, FalseText}
           /\ value_input' = IF value_input = TrueText THEN FalseText ELSE TrueText
           /\ key_input' = key_input
           /\ selected_value_type' = selected_value_type
           /\ pairs' = pairs)]_vars

\* The buffers of ValidateBuffers that are the text of a number.
NumberTexts == {<<"3">>, <<"3", ".", "5">>, <<"-", "3", ".", "0">>}

\* C31: on the Editing screen validate_fields flags the Value field
\* exactly when the type is Number and the buffer is no number, or Bool and
\* the buffer is no boolean; for String, Null, Object and Array it never
\* flags it, whatever the buffer; it returns true exactly when error_fields
\* is empty afterwards.
ValueFlaggedForNumberAndBoolOnly ==
    [][(Handles("validate_fields") /\ current_screen = "Editing")
       => (/\ Flags(error_fields', "Value")
                <=> \/ (selected_value_type' = "Number"
                            /\ value_input' \notin NumberTexts)
                    \/ (selected_value_type' = "Bool"
                            /\ value_input' \notin {TrueText, FalseText})
           /\ (outcome' = "true") <=> (error_fields' = <<>>))]_vars

\* C32: for every Index(i) step of the path taken where the view before it
\* holds an Array a under the key i written as text, the view after it has
\* exactly len(a) rows, keyed "0", "1", ... in element order, row j holding
\* a[j].
ArrayRowsKeyedByPosition ==
    \A d \in 1..Len(traversal_path) :
        LET step == traversal_path[d]
            before == VisiblePairs(pairs, SubSeq(traversal_path, 1, d - 1))
            after == VisiblePairs(pairs, SubSeq(traversal_path, 1, d))
            names == << <<"0">>, <<"1">>, <<"2">> >>
        IN  (/\ step.kind = "Index"
             /\ step.i < Len(names)
             /\ before.ok
             /\ HasKey(before.val, names[step.i + 1])
             /\ Unwrap(Get(before.val, names[step.i + 1])).type = "Array")
            => (LET a == Unwrap(Get(before.val, names[step.i + 1])).a
                IN  /\ after.ok
                    /\ Len(a) <= Len(names)
                    /\ Len(after.val) = Len(a)
                    /\ \A j \in 1..Len(a) :
                          /\ after.val[j].key = names[j]
                          /\ after.val[j].value = a[j])

\* C32 witness: in {"0": [{"x": null}, ["s"]], "k": []} the path
\* [Index(0), Index(1)] shows the one row "0" -> "s" of the inner array.
ArrayRowsWitness ==
    /\ action = "traverse_down"
    /\ traversal_path = <<TKIndex(0), TKIndex(1)>>
    /\ pairs = DocArrays
    /\ get_visible_pairs.ok
    /\ get_visible_pairs.val = <<Entry(<<"0">>, JString(<<"s">>))>>

\* C33: the session starts on Main with an empty path, no selection and no
\* pending deletion; Editing, Preview and Exiting are entered only from Main,
\* Editing and Preview are left only to Main, and the session ends with a
\* result (save or discard) only from Exiting.
ScreensGoThroughMain ==
    /\ (pc = "await"
           => /\ current_screen = "Main"
              /\ traversal_path = <<>>
              /\ list_ui_state = None
              /\ target_delete_key = None)
    /\ [][/\ (current_screen' # current_screen
                 /\ current_screen' \in {"Editing", "Preview", "Exiting"})
             => current_screen = "Main"
          /\ (current_screen' # current_screen
                 /\ current_screen \in {"Editing", "Preview"})
             => current_screen' = "Main"
          /\ (pc = "await" /\ pc' = "done" /\ outcome' \in {"save", "discard"})
             => (current_screen = "Exiting" /\ current_screen' = "Exiting")]_vars

\* C33 witness: a pair was submitted from the popup into an empty document,
\* then the session went to Exiting and ended there with 'save'.
ScreensWitness ==
    /\ pc = "done"
    /\ outcome = "save"
    /\ current_screen = "Exiting"
    /\ Len(pairs) = 1
    /\ pairs[1].value = JString(<<>>)

\* C34: while a deletion is pending the screen is Main and the legal-action
\* table holds exactly DeleteYes (on 'y') and DeleteNo (on 'n'); the only
\* steps taken are these two and keys that are ignored, which leave the
\* screen, the cursor, the path, the buffers and the document as they are.
PendingDeleteBlocksOtherActions ==
    /\ [](pc = "await" /\ IsSome(target_delete_key)
            => /\ current_screen = "Main"
               /\ available_bindings = << <<"y", "DeleteYes">>, <<"n", "DeleteNo">> >>)
    /\ [][IsSome(target_delete_key)
            => /\ action' \in {"DeleteYes", "DeleteNo", ""}
               /\ action' = ""
                    => UNCHANGED <<current_screen, list_ui_state, traversal_path,
                                   key_input, value_input, pairs,
                                   target_delete_key>>]_vars

\* C34 witness: a deletion has just been requested and a key is awaited.
PendingDeleteWitness ==
    /\ pc = "await"
    /\ action = "RequestPairDelete"
    /\ IsSome(target_delete_key)
    /\ events < MaxEvents

\* C35: in every state of the session the traversal path resolves against the
\* document: get_visible_pairs does not return InvalidTraversalPath, whatever
\* legal actions were taken (traverse-in, traverse-out, submit, confirmed
\* deletion).
PathAlwaysResolves == get_visible_pairs.ok

\* C36: whenever a key is awaited on the Main screen with the cursor on index
\* i, i is smaller than the number of rows of the visible projection; and no
\* session ends with the invalid-index errors FailedToOpenPairEdit or
\* NoEntryAtIndex.
CursorWithinVisibleRows ==
    /\ (pc = "await" /\ current_screen = "Main" /\ IsSome(list_ui_state)
           /\ get_visible_pairs.ok)
          => Unwrap(list_ui_state) < Len(get_visible_pairs.val)
    /\ outcome \notin {"FailedToOpenPairEdit", "NoEntryAtIndex"}

\* C37: whenever the type list is open the edit focus is Type; and no
\* character or backspace key taken while the list is open changes key_input
\* or value_input.
TypeListOpenHoldsFocus ==
    /\ [](pc = "await" /\ type_list_open => edit_popup_focus = Some("Type"))
    /\ [][(/\ type_list_open
           /\ action' \in {"EnterFieldText(Key)", "EnterFieldText(Value)",
                           "BackspaceFieldText(Key)", "BackspaceFieldText(Value)"})
          => (key_input' = key_input /\ value_input' = value_input)]_vars

\* C38: the document changes in two kinds of step only: EditingSubmit with
\* the focus on Value and the type list closed, and DeleteYes with a pending
\* target; every other step (moves, traversal, focus changes, text entry,
\* type choice, submit from Key or Type, cancel, preview, quit, the exit
\* popup's actions, ignored keys) leaves it unchanged.
DocumentChangesBySubmitOrDelete ==
    [][pairs' # pairs
       => \/ /\ Handles("EditingSubmit")
             /\ current_screen = "Editing"
             /\ edit_popup_focus = Some("Value")
             /\ ~type_list_open
          \/ /\ Handles("DeleteYes")
             /\ IsSome(target_delete_key)]_vars

\* C38 witness: a session started without an input file, from an empty
\* document, has added a pair by a submit and removed it again by a
\* confirmed deletion.
DocumentChangesWitness ==
    /\ action = "DeleteYes"
    /\ pc = "await"
    /\ events = 4
    /\ pairs = <<>>
    /\ target_delete_key = None
    /\ target_write_file = None
    /\ traversal_path = <<>>

====
